---- MODULE Spec2Model ----
(***************************************************************************)
(* Calibration and acquisition of the Fabry-Perot lockbox model            *)
(* (pyrpl/software_modules/lockbox/models/fabryperot.py).                  *)
(*                                                                         *)
(* Voltages are integers counting microvolts, so that atol = 0.050 V is    *)
(* 50000 and numpy's default rtol = 1e-5 is one part in 100000.  The       *)
(* arithmetic is exact on that grid; IEEE rounding is not modelled.        *)
(***************************************************************************)
EXTENDS Integers, Sequences, FiniteSets, TLC

VARIABLES
    negative,          \* FitInput.negative of the instantiated signal class
    calibration_data,  \* FitInput.calibration_data (FitCalibrationData)
    fpc,               \* position of the controller inside FitInput.calibrate
    flocal,            \* local variables of the running FitInput.calibrate
    fpre,              \* calibration_data as it was when the call started
    fresult,           \* how the last FitInput.calibrate call ended
    fevents,           \* what the running call has emitted / persisted so far
    fcalls,            \* calibrate calls made so far
    seen,              \* what a concurrent reader of min/max last observed
    leased,            \* pyrpl.scopes: how many scopes each owner holds
    scope_cfg,         \* the settings of the scope the zoom protocol works on
    has_sweep_zoom,    \* "sweep_zoom" in scope.states
    sweep_running,     \* the lockbox sweeps the actuator
    hcal,              \* calibration_data of the high-finesse inputs
    hpc,               \* position inside HighFinesse*.calibrate
    hlocal,            \* local variables of the running high-finesse call
    hpre,              \* hcal as it was when the call started
    hresult,           \* how the last high-finesse calibrate call ended
    hevents,           \* what the running call has done so far, in order
    hcalls,            \* high-finesse calibrate calls made so far
    fsr_voltage,       \* DoublyResonantFabryPerot.fsr_voltage
    resonance_voltage, \* DoublyResonantFabryPerot.resonance_voltage
    min_voltage,       \* outputs.piezo.min_voltage
    piezo_mean,        \* outputs.piezo.mean
    reset_offset,      \* sequence[0].outputs.piezo.reset_offset
    stage1_offset,     \* sequence[0].outputs.piezo.offset
    current_state,     \* Lockbox.current_state
    lpc,               \* position of the controller inside lock / switch_resonance
    levents,           \* what the running lock / switch_resonance has done so far
    lcalls,            \* lock / switch_resonance calls made so far
    is_locked_result,  \* what the last is_locked call returned
    used_offset,       \* the piezo offset the last lock sequence started from
    pdh_sbfreq,        \* the sbfreq argument of the last _pdh_normalized call
    pdh_x_max,         \* the x_max formula that call normalised with
    es_cal,            \* calibration_data.min / .max of the signal expected_signal reads
    es_call,           \* the last expected_signal call: model, setpoint, unit, value
    is_locked_signal,  \* FPAnalogPdh.is_locked_signal of the pdh input
    il,                \* the running or last is_locked call on an input signal
    window_visible,    \* PyrplWidget.isVisible() of the main window
    docks,             \* per dock widget: its visibility flags and its action's check state
    dock_stack         \* the slots Qt is running or about to run, innermost first

fitvars ==
    <<negative, calibration_data, fpc, flocal, fpre, fresult, fevents, fcalls, seen>>

hfvars ==
    <<leased, scope_cfg, has_sweep_zoom, sweep_running, hcal, hpc, hlocal,
      hpre, hresult, hevents, hcalls>>

lockvars ==
    <<fsr_voltage, resonance_voltage, min_voltage, piezo_mean, reset_offset,
      stage1_offset, current_state, lpc, levents, lcalls, is_locked_result,
      used_offset>>

pdhvars == <<pdh_sbfreq, pdh_x_max>>

esvars == <<es_cal, es_call>>

ilvars == <<is_locked_signal, il>>

dockvars == <<window_visible, docks, dock_stack>>

vars == <<fitvars, hfvars, lockvars, pdhvars, esvars, ilvars, dockvars>>

\* Python's None where a curve, an array or a curve handle is expected: the
\* empty sequence (a curve that exists has at least one sample, a handle
\* that exists is Some(h))
None == <<>>

Some(h) == <<h>>

----------------------------------------------------------------------------
(* Bounds of the model *)

\* longest sweep curve handed back by sweep_acquire
MaxLen == 4

\* calibrate calls in one behaviour
MaxCalls == 2

\* scopes in the pool pyrpl.scopes
NumScopes == 1

----------------------------------------------------------------------------
(* Program constants *)

\* FitInput.atol = 0.050 V, in microvolts
Atol == 50000

\* 1 / rtol of np.allclose (rtol is left at numpy's default 1e-5)
RtolInv == 100000

\* FabryPerot.finesse, at its default
Finesse == 10000

----------------------------------------------------------------------------
(* Numeric helpers *)

Abs(x) == IF x < 0 THEN -x ELSE x

RECURSIVE SeqSum(_)
SeqSum(s) == IF s = <<>> THEN 0 ELSE Head(s) + SeqSum(Tail(s))

SeqMax(s) == CHOOSE m \in {s[i] : i \in DOMAIN s} : \A i \in DOMAIN s : s[i] <= m

SeqMin(s) == CHOOSE m \in {s[i] : i \in DOMAIN s} : \A i \in DOMAIN s : m <= s[i]

\* ndarray.mean(), to the microvolt
Mean(s) == SeqSum(s) \div Len(s)

RECURSIVE ISqrtBetween(_, _, _)
ISqrtBetween(v, lo, hi) ==
    IF lo >= hi THEN lo
    ELSE LET mid == (lo + hi + 1) \div 2
         IN  IF mid * mid <= v THEN ISqrtBetween(v, mid, hi)
             ELSE ISqrtBetween(v, lo, mid - 1)

ISqrt(v) == ISqrtBetween(v, 0, 46340)

\* ndarray.std(): population standard deviation, to the millivolt
Std(s) ==
    LET m == Mean(s)
        dev == [i \in DOMAIN s |-> (s[i] - m) \div 1000]
        sq == [i \in DOMAIN s |-> dev[i] * dev[i]]
    IN  1000 * ISqrt(SeqSum(sq) \div Len(s))

\* np.allclose(a, b, atol=atol): |a - b| <= atol + rtol * |b|
AllClose(a, b, atol) == Abs(a - b) <= atol + (Abs(b) \div RtolInv)

\* s[:k]
Take(s, k) == SubSeq(s, 1, k)

----------------------------------------------------------------------------
(* What the collaborators can hand to FitInput.calibrate *)

\* sample voltages of a sweep: 0 V and 1 V
Samples == {0, 1000000}

\* asg voltage of sample i: a ramp of 0.1 V per sample
Ramp(n) == [i \in 1..n |-> 100000 * (i - 1)]

Curves == UNION {[1..n -> Samples] : n \in 2..MaxLen}

\* sweep_acquire(return_asg_data=True): a curve with its voltage axis, or
\* nothing when no scope is free
SweepResults ==
    {[curve |-> c, voltage |-> Ramp(Len(c))] : c \in Curves}
        \cup {[curve |-> None, voltage |-> None]}

\* how far the fitted levels may lie from the observed extrema
FitDeviations == {0, Atol, Atol + 1, Atol + 11}

FitLevels(curve) ==
    {SeqMin(curve) + d : d \in FitDeviations} \cup {SeqMax(curve) + d : d \in FitDeviations}

\* result.values of the lmfit least-squares fit: background c, height,
\* center and fwhm
FitValues(curve) ==
    {[c |-> c, height |-> top - c, center |-> ctr, fwhm |-> w] :
        c \in FitLevels(curve), top \in FitLevels(curve),
        ctr \in {300000}, w \in {200000}}

----------------------------------------------------------------------------
(* Calibration data *)

DefaultCalibration ==
    [min |-> 0, max |-> 0, mean |-> 0, rms |-> 0, center |-> 0, fwhm |-> 0,
     measured_x |-> None, measured_y |-> None, curve |-> None]

\* the six fields a calibration run commits
Committed(cd) == <<cd.min, cd.max, cd.mean, cd.rms, cd.center, cd.fwhm>>

\* locals of FitInput.calibrate; a number not yet assigned reads 0
\* fit_raised is what FitInput.fit raised (nothing: ""), converged what the
\* least-squares result reports as its success
NoLocals ==
    [autosave |-> FALSE, curve |-> None, voltage |-> None, minimum |-> 0,
     maximum |-> 0, centre_voltage |-> 0, fit_fwhm |-> 0,
     fit_raised |-> "", converged |-> TRUE]

NoResult == [kind |-> "none", error |-> "", value |-> None]

Returned(v) == [kind |-> "return", error |-> "", value |-> v]

Raised(e) == [kind |-> "raise", error |-> e, value |-> None]

\* a FitInput as constructed, before any call
FitIdle ==
    /\ calibration_data = DefaultCalibration
    /\ fpc = "idle"
    /\ flocal = NoLocals
    /\ fpre = DefaultCalibration
    /\ fresult = NoResult
    /\ fevents = <<>>
    /\ fcalls = 0
    /\ seen = None

\* the signal is a dip (FitFPReflection) or a peak (FitFPTransmission)
FitInit ==
    /\ negative \in BOOLEAN
    /\ FitIdle

----------------------------------------------------------------------------
(* FitInput.calibrate *)

\* the caller enters calibrate(autosave)
FitCalibrate_Call ==
    /\ fpc = "idle"
    /\ fcalls < MaxCalls
    /\ fcalls' = fcalls + 1
    /\ \E autosave \in BOOLEAN : flocal' = [NoLocals EXCEPT !.autosave = autosave]
    /\ fpre' = calibration_data
    /\ fresult' = NoResult
    /\ fevents' = <<>>
    /\ seen' = None
    /\ fpc' = "acquire"
    /\ UNCHANGED <<hfvars, lockvars, pdhvars, esvars, ilvars, dockvars>>
    /\ UNCHANGED <<negative, calibration_data>>

\* line 57: sweep_acquire(return_asg_data=True) hands back the sweep
FitCalibrate_Acquire ==
    /\ fpc = "acquire"
    /\ \E r \in SweepResults :
          flocal' = [flocal EXCEPT !.curve = r.curve, !.voltage = r.voltage]
    /\ fpc' = "truncate"
    /\ UNCHANGED <<hfvars, lockvars, pdhvars, esvars, ilvars, dockvars>>
    /\ UNCHANGED <<negative, calibration_data, fpre, fresult, fevents, fcalls, seen>>

\* a calibrate that goes on with the whole sweep
FitCalibrate_Truncate_KeepsAll ==
    /\ fpc = "truncate"
    /\ IF flocal.curve = None
       THEN /\ fresult' = Raised("TypeError")
            /\ fpc' = "idle"
       ELSE /\ fpc' = "fit"
            /\ UNCHANGED fresult
    /\ UNCHANGED <<hfvars, lockvars, pdhvars, esvars, ilvars, dockvars>>
    /\ UNCHANGED <<negative, calibration_data, flocal, fpre, fevents, fcalls, seen>>

\* lines 58-64: curve and voltage are cut to their first half; len(curve)
\* is taken before curve is compared with None
FitCalibrate_Truncate ==
    /\ fpc = "truncate"
    /\ IF flocal.curve = None
       THEN /\ fresult' = Raised("TypeError")
            /\ fpc' = "idle"
            /\ UNCHANGED flocal
       ELSE LET points_to_use == Len(flocal.curve) \div 2
            IN  /\ flocal' = [flocal EXCEPT !.curve = Take(@, points_to_use),
                                            !.voltage = Take(@, points_to_use)]
                /\ fpc' = "fit"
                /\ UNCHANGED fresult
    /\ UNCHANGED <<hfvars, lockvars, pdhvars, esvars, ilvars, dockvars>>
    /\ UNCHANGED <<negative, calibration_data, fpre, fevents, fcalls, seen>>

\* voltage_to_fit / voltage_from_fit of FitInput: the identity
voltage_to_fit(voltage) == voltage

voltage_from_fit(x_for_fit) == x_for_fit

\* lines 112-115: the fitted extrema, swapped for a dip
FitMinimum(v) == IF negative THEN v.c + v.height ELSE v.c

FitMaximum(v) == IF negative THEN v.c ELSE v.c + v.height

\* lines 121-125: the x axis in bandwidths (setpoint unit 'bandwidth'), to a
\* hundredth of a bandwidth
MeasuredX(x_for_fit, v) ==
    [i \in DOMAIN x_for_fit |-> (200 * (x_for_fit[i] - v.center)) \div v.fwhm]

\* what can be raised inside FitInput.fit: anything by the fitting library,
\* and the FitError of line 117
FitFailures == {"Exception", "FitError: wrong sign"}

\* lines 65-68 with FitInput.fit (99-127): the fitting library raises, or
\* hands back a result; the result's values are read (lines 112-113, 118-119)
\* and its success flag is not, so a fit that stopped at max_nfev goes on
\* like one that converged; an inverted peak raises (line 117); whatever is
\* raised becomes the FitError of line 68; otherwise the plot data are
\* stored and the four values returned
FitCalibrate_Fit ==
    /\ fpc = "fit"
    /\ \/ /\ flocal' = [flocal EXCEPT !.fit_raised = "Exception"]
          /\ fresult' = Raised("FitError: unexpected")
          /\ fpc' = "idle"
          /\ UNCHANGED calibration_data
       \/ \E v \in FitValues(flocal.curve), success \in BOOLEAN :
            IF FitMinimum(v) > FitMaximum(v)
            THEN /\ flocal' = [flocal EXCEPT !.fit_raised = "FitError: wrong sign",
                                             !.converged = success]
                 /\ fresult' = Raised("FitError: unexpected")
                 /\ fpc' = "idle"
                 /\ UNCHANGED calibration_data
            ELSE /\ calibration_data' =
                        [calibration_data EXCEPT
                            !.measured_x = MeasuredX(voltage_to_fit(flocal.voltage), v),
                            !.measured_y = flocal.curve]
                 /\ flocal' = [flocal EXCEPT !.minimum = FitMinimum(v),
                                             !.maximum = FitMaximum(v),
                                             !.centre_voltage = voltage_from_fit(v.center),
                                             !.fit_fwhm = v.fwhm,
                                             !.converged = success]
                 /\ fpc' = "validate"
                 /\ UNCHANGED fresult
    /\ UNCHANGED <<hfvars, lockvars, pdhvars, esvars, ilvars, dockvars>>
    /\ UNCHANGED <<negative, fpre, fevents, fcalls, seen>>

\* a validation that stores the fitted minimum before it has compared it
FitCalibrate_Validate_StoresFirst ==
    /\ fpc = "validate"
    /\ LET a_maximum == SeqMax(flocal.curve)
           a_minimum == SeqMin(flocal.curve)
       IN  /\ calibration_data' = [calibration_data EXCEPT !.min = flocal.minimum]
           /\ IF ~AllClose(a_minimum, flocal.minimum, Atol)
              THEN /\ fresult' = Raised("FitError: minimum")
                   /\ fpc' = "idle"
              ELSE IF ~AllClose(a_maximum, flocal.maximum, Atol)
              THEN /\ fresult' = Raised("FitError: maximum")
                   /\ fpc' = "idle"
              ELSE /\ fpc' = "set_min"
                   /\ UNCHANGED fresult
    /\ UNCHANGED <<hfvars, lockvars, pdhvars, esvars, ilvars, dockvars>>
    /\ UNCHANGED <<negative, flocal, fpre, fevents, fcalls, seen>>

\* a calibrate that notifies its listeners as soon as the fit has passed the
\* checks, before the values are stored
FitCalibrate_Validate_EmitsEarly ==
    /\ fpc = "validate"
    /\ LET a_maximum == SeqMax(flocal.curve)
           a_minimum == SeqMin(flocal.curve)
       IN  IF ~AllClose(a_minimum, flocal.minimum, Atol)
           THEN /\ fresult' = Raised("FitError: minimum")
                /\ fpc' = "idle"
                /\ UNCHANGED fevents
           ELSE IF ~AllClose(a_maximum, flocal.maximum, Atol)
           THEN /\ fresult' = Raised("FitError: maximum")
                /\ fpc' = "idle"
                /\ UNCHANGED fevents
           ELSE /\ fpc' = "set_min"
                /\ fevents' = Append(fevents, "input_calibrated")
                /\ UNCHANGED fresult
    /\ UNCHANGED <<hfvars, lockvars, pdhvars, esvars, ilvars, dockvars>>
    /\ UNCHANGED <<negative, calibration_data, flocal, fpre, fcalls, seen>>

\* lines 70-76: the fitted extrema against those of the curve
FitCalibrate_Validate ==
    /\ fpc = "validate"
    /\ LET a_maximum == SeqMax(flocal.curve)
           a_minimum == SeqMin(flocal.curve)
       IN  IF ~AllClose(a_minimum, flocal.minimum, Atol)
           THEN /\ fresult' = Raised("FitError: minimum")
                /\ fpc' = "idle"
           ELSE IF ~AllClose(a_maximum, flocal.maximum, Atol)
           THEN /\ fresult' = Raised("FitError: maximum")
                /\ fpc' = "idle"
           ELSE /\ fpc' = "set_min"
                /\ UNCHANGED fresult
    /\ UNCHANGED <<hfvars, lockvars, pdhvars, esvars, ilvars, dockvars>>
    /\ UNCHANGED <<negative, calibration_data, flocal, fpre, fevents, fcalls, seen>>

\* lines 78-83: one assignment after the other
CommitStep(at, next, cd) ==
    /\ fpc = at
    /\ calibration_data' = cd
    /\ fpc' = next
    /\ UNCHANGED <<hfvars, lockvars, pdhvars, esvars, ilvars, dockvars>>
    /\ UNCHANGED <<negative, flocal, fpre, fresult, fevents, fcalls, seen>>

FitCalibrate_SetMin ==
    CommitStep("set_min", "set_max", [calibration_data EXCEPT !.min = flocal.minimum])

FitCalibrate_SetMax ==
    CommitStep("set_max", "set_mean", [calibration_data EXCEPT !.max = flocal.maximum])

FitCalibrate_SetMean ==
    CommitStep("set_mean", "set_rms", [calibration_data EXCEPT !.mean = Mean(flocal.curve)])

FitCalibrate_SetRms ==
    CommitStep("set_rms", "set_center", [calibration_data EXCEPT !.rms = Std(flocal.curve)])

FitCalibrate_SetCenter ==
    CommitStep("set_center", "set_fwhm",
               [calibration_data EXCEPT !.center = flocal.centre_voltage])

FitCalibrate_SetFwhm ==
    CommitStep("set_fwhm", "emit", [calibration_data EXCEPT !.fwhm = flocal.fit_fwhm])

\* line 88: input_calibrated.emit([self])
FitCalibrate_Emit ==
    /\ fpc = "emit"
    /\ fevents' = Append(fevents, "input_calibrated")
    /\ fpc' = "save"
    /\ UNCHANGED <<hfvars, lockvars, pdhvars, esvars, ilvars, dockvars>>
    /\ UNCHANGED <<negative, calibration_data, flocal, fpre, fresult, fcalls, seen>>

\* FitCalibrationData._setup_attributes (line 45)
FitSetupAttributes(cd) == [center |-> cd.center, fwhm |-> cd.fwhm]

\* lines 90-97: the curve is persisted when asked for
FitCalibrate_Save ==
    /\ fpc = "save"
    /\ IF flocal.autosave
       THEN LET newcurve == [x |-> flocal.voltage, y |-> flocal.curve,
                             params |-> FitSetupAttributes(calibration_data)]
            IN  /\ calibration_data' = [calibration_data EXCEPT !.curve = Some(newcurve)]
                /\ fevents' = Append(fevents, "save_curve")
                /\ fresult' = Returned(Some(newcurve))
       ELSE /\ fresult' = Returned(None)
            /\ UNCHANGED <<calibration_data, fevents>>
    /\ fpc' = "idle"
    /\ UNCHANGED <<hfvars, lockvars, pdhvars, esvars, ilvars, dockvars>>
    /\ UNCHANGED <<negative, flocal, fpre, fcalls, seen>>

\* FitFPReflection.expected_signal reads calibration_data.max and .min while
\* a calibration is running
ExpectedSignal_Read ==
    /\ fpc # "idle"
    /\ seen' = <<calibration_data.min, calibration_data.max>>
    /\ UNCHANGED <<hfvars, lockvars, pdhvars, esvars, ilvars, dockvars>>
    /\ UNCHANGED <<negative, calibration_data, fpc, flocal, fpre, fresult, fevents, fcalls>>

----------------------------------------------------------------------------
(* The scope pool, the scope and the lockbox, as the high-finesse inputs   *)
(* use them                                                                *)

\* who takes scopes from the pool: the trigger signal (pop(self.name)) and
\* everybody else
Owners == {"reflection", "other"}

\* scopes in use
Occupancy == leased["reflection"] + leased["other"]

\* the signals of HighFinesseFabryPerot that take part
HSignals == {"reflection", "pdh"}

\* curves a scope can hand back: a coarse sweep and a zoomed trace
CoarseCurves == {<<1000000, 0>>, <<1000000, 200000>>}

ZoomCurves == {<<1000000, 100000>>, <<900000, 300000>>}

\* the scope state "autosweep", as sweep_acquire leaves it, and a state
\* "sweep_zoom" a user saved
AutosweepState ==
    [duration |-> 1000000, trigger_source |-> "asg0", hysteresis |-> 0,
     trigger_delay |-> 500000, threshold |-> 0]

SweepZoomState ==
    [duration |-> 5000, trigger_source |-> "ch1_positive_edge", hysteresis |-> 2000,
     trigger_delay |-> 0, threshold |-> 700000]

DefaultScope ==
    [duration |-> 1000000, trigger_source |-> "immediately", hysteresis |-> 0,
     trigger_delay |-> 0, threshold |-> 0, input1 |-> "", input2 |-> "",
     armed |-> FALSE]

LoadState(cfg, st) ==
    [cfg EXCEPT !.duration = st.duration, !.trigger_source = st.trigger_source,
                !.hysteresis = st.hysteresis, !.trigger_delay = st.trigger_delay,
                !.threshold = st.threshold]

\* pyrpl.scopes.pop(owner) grants a scope while one is free, and raises
\* InsufficientResourceError otherwise
PoolCanGrant == Occupancy < NumScopes

Pop(owner) == [leased EXCEPT ![owner] = @ + 1]

\* leaving the `with` block frees the scope
Release(owner) == [leased EXCEPT ![owner] = @ - 1]

DefaultHCal ==
    [min |-> 0, max |-> 0, mean |-> 0, rms |-> 0, analog_offset |-> 0,
     asg_phase |-> 0, curve |-> None]

\* CalibrationData.get_stats_from_curve
StatsFromCurve(cd, curve) ==
    [cd EXCEPT !.min = SeqMin(curve), !.max = SeqMax(curve),
               !.mean = Mean(curve), !.rms = Std(curve)]

Stats(cd) == <<cd.min, cd.max, cd.mean, cd.rms>>

\* CalibrationData.setup_attributes
SetupAttributes(cd) ==
    [min |-> cd.min, max |-> cd.max, mean |-> cd.mean, rms |-> cd.rms,
     analog_offset |-> cd.analog_offset, asg_phase |-> cd.asg_phase]

\* curve -= offset
Shift(curve, offset) == [i \in DOMAIN curve |-> curve[i] - offset]

NoHLocals ==
    [variant |-> "", autosave |-> FALSE, curve0 |-> None, threshold |-> 0,
     zcause |-> "", zraised |-> FALSE,
     curve1 |-> None, curve2 |-> None, times |-> None, occupancy |-> 0,
     notified |-> None, calibration_params |-> SetupAttributes(DefaultHCal),
     threshold_raised |-> FALSE]

\* the pool, the scopes and the high-finesse inputs as constructed
HFIdle ==
    /\ leased = [o \in Owners |-> 0]
    /\ scope_cfg = DefaultScope
    /\ sweep_running = FALSE
    /\ hpc = "idle"
    /\ hlocal = NoHLocals
    /\ hpre = hcal
    /\ hresult = NoResult
    /\ hevents = <<>>
    /\ hcalls = 0

\* a "sweep_zoom" state may have been saved, and the analog offsets measured
HFInit ==
    /\ has_sweep_zoom \in BOOLEAN
    /\ hcal \in {[sg \in HSignals |-> [DefaultHCal EXCEPT !.analog_offset = o]] :
                    o \in {0, 10000}}
    /\ HFIdle

----------------------------------------------------------------------------
(* Other users of the scope pool *)

Other_Pop ==
    /\ hpc \in {"idle", "threshold", "await"}
    /\ PoolCanGrant
    /\ leased' = Pop("other")
    /\ UNCHANGED <<scope_cfg, has_sweep_zoom, sweep_running, hcal, hpc, hlocal,
                   hpre, hresult, hevents, hcalls>>
    /\ UNCHANGED <<fitvars, lockvars, pdhvars, esvars, ilvars, dockvars>>

Other_Free ==
    /\ hpc \in {"idle", "threshold", "await"}
    /\ leased["other"] > 0
    /\ leased' = Release("other")
    /\ UNCHANGED <<scope_cfg, has_sweep_zoom, sweep_running, hcal, hpc, hlocal,
                   hpre, hresult, hevents, hcalls>>
    /\ UNCHANGED <<fitvars, lockvars, pdhvars, esvars, ilvars, dockvars>>

----------------------------------------------------------------------------
(* HighFinesseInput.calibrate and HighFinesseAnalogPdh.calibrate *)

\* the signal whose calibrate runs, and the one that triggers the scope
Self == IF hlocal.variant = "HighFinesseAnalogPdh" THEN "pdh" ELSE "reflection"

Trigger == "reflection"

HF_Call ==
    /\ hpc = "idle"
    /\ hcalls < MaxCalls
    /\ hcalls' = hcalls + 1
    /\ \E v \in {"HighFinesseInput", "HighFinesseAnalogPdh"}, autosave \in BOOLEAN :
        hlocal' = [NoHLocals EXCEPT !.variant = v, !.autosave = autosave]
    /\ hpre' = hcal
    /\ hresult' = NoResult
    /\ hevents' = <<>>
    /\ hpc' = "coarse"
    /\ UNCHANGED <<leased, scope_cfg, has_sweep_zoom, sweep_running, hcal>>
    /\ UNCHANGED <<fitvars, lockvars, pdhvars, esvars, ilvars, dockvars>>

\* a calibrate that goes on to the zoomed acquisition without a coarse curve
HF_Coarse_StartsZoom ==
    /\ hpc = "coarse"
    /\ IF ~PoolCanGrant
       THEN /\ hpc' = "pop"
            /\ UNCHANGED <<hlocal, sweep_running, scope_cfg>>
       ELSE /\ \E c \in CoarseCurves : hlocal' = [hlocal EXCEPT !.curve0 = c]
            /\ scope_cfg' = LoadState(scope_cfg, AutosweepState)
            /\ sweep_running' = TRUE
            /\ hpc' = "threshold"
    /\ UNCHANGED <<leased, has_sweep_zoom, hcal, hpre, hcalls, hresult, hevents>>
    /\ UNCHANGED <<fitvars, lockvars, pdhvars, esvars, ilvars, dockvars>>

\* lines 414-417 and 478-481: the coarse sweep; sweep_acquire leases a scope
\* for the time of the sweep and leaves the sweep running, or returns nothing
HF_Coarse ==
    /\ hpc = "coarse"
    /\ IF ~PoolCanGrant
       THEN /\ hresult' = Returned(None)
            /\ hevents' = Append(hevents, "warning")
            /\ hpc' = "idle"
            /\ UNCHANGED <<hlocal, sweep_running, scope_cfg>>
       ELSE /\ \E c \in CoarseCurves : hlocal' = [hlocal EXCEPT !.curve0 = c]
            /\ scope_cfg' = LoadState(scope_cfg, AutosweepState)
            /\ sweep_running' = TRUE
            /\ hpc' = "threshold"
            /\ UNCHANGED <<hresult, hevents>>
    /\ UNCHANGED <<leased, has_sweep_zoom, hcal, hpre, hcalls>>
    /\ UNCHANGED <<fitvars, lockvars, pdhvars, esvars, ilvars, dockvars>>

\* _lorentz (line 16) at a detuning of one bandwidth: 1 / (1 + 1)
\* FPReflection.expected_signal (lines 137-141) there: max - (max - min) / 2
ExpectedSignalAtBandwidth(cd) == cd.max - (cd.max - cd.min) \div 2

\* get_threshold_empirical, lines 443-444: the setup_attributes are put
\* aside and the statistics of the coarse curve take their place
HF_ThresholdStats ==
    /\ hpc = "threshold"
    /\ hlocal' = [hlocal EXCEPT !.calibration_params = SetupAttributes(hcal[Trigger])]
    /\ hcal' = [hcal EXCEPT ![Trigger] = StatsFromCurve(@, hlocal.curve0)]
    /\ hpc' = "expected"
    /\ UNCHANGED <<leased, scope_cfg, has_sweep_zoom, sweep_running, hpre,
                   hresult, hevents, hcalls>>
    /\ UNCHANGED <<fitvars, lockvars, pdhvars, esvars, ilvars, dockvars>>

\* the setup_attributes put aside are written back
Restored(cd, calibration_params) ==
    [cd EXCEPT !.min = calibration_params.min,
               !.max = calibration_params.max,
               !.mean = calibration_params.mean,
               !.rms = calibration_params.rms,
               !.analog_offset = calibration_params.analog_offset,
               !.asg_phase = calibration_params.asg_phase]

\* lines 445-447: the threshold is the expected signal one bandwidth off
\* resonance, and the setup_attributes are written back; when
\* expected_signal (or the unit conversion of its argument) raises, line 446
\* is not reached and the exception leaves calibrate
HF_Threshold ==
    /\ hpc = "expected"
    /\ \/ /\ hlocal' = [hlocal EXCEPT
                            !.threshold = ExpectedSignalAtBandwidth(hcal[Trigger]),
                            !.occupancy = Occupancy]
          /\ hcal' = [hcal EXCEPT ![Trigger] = Restored(@, hlocal.calibration_params)]
          /\ hpc' = "pop"
          /\ UNCHANGED hresult
       \/ /\ hlocal' = [hlocal EXCEPT !.threshold_raised = TRUE]
          /\ hresult' = Raised("Exception")
          /\ hpc' = "idle"
          /\ UNCHANGED hcal
    /\ UNCHANGED <<leased, scope_cfg, has_sweep_zoom, sweep_running, hpre,
                   hevents, hcalls>>
    /\ UNCHANGED <<fitvars, lockvars, pdhvars, esvars, ilvars, dockvars>>

----------------------------------------------------------------------------
(* HighFinesseInput.sweep_acquire_zoom, called on the trigger signal *)

HoldsScope == hpc \in {"unlock", "load", "setup", "arm", "sweep", "await"}

EmptyTriple(l) == [l EXCEPT !.curve1 = None, !.curve2 = None, !.times = None]

\* a sweep_acquire_zoom without the handler of lines 407-410: the
\* InsufficientResourceError goes on to the caller
HF_ZoomPop_NoHandler ==
    /\ hpc = "pop"
    /\ IF ~PoolCanGrant
       THEN /\ hlocal' = [hlocal EXCEPT !.zcause = "denied", !.zraised = TRUE]
            /\ hresult' = Raised("InsufficientResourceError")
            /\ hpc' = "idle"
            /\ UNCHANGED <<leased, hevents>>
       ELSE /\ leased' = Pop(Trigger)
            /\ hevents' = Append(hevents, "pop")
            /\ hpc' = "unlock"
            /\ UNCHANGED <<hlocal, hresult>>
    /\ UNCHANGED <<scope_cfg, has_sweep_zoom, sweep_running, hcal, hpre, hcalls>>
    /\ UNCHANGED <<fitvars, lockvars, pdhvars, esvars, ilvars, dockvars>>

\* a sweep_acquire_zoom that unlocks before it asks the pool for a scope
HF_ZoomPop_UnlocksFirst ==
    /\ hpc = "pop"
    /\ sweep_running' = FALSE
    /\ IF ~PoolCanGrant
       THEN /\ hlocal' = [EmptyTriple(hlocal) EXCEPT !.zcause = "denied"]
            /\ hevents' = Append(hevents, "warning")
            /\ hpc' = "after_zoom"
            /\ UNCHANGED leased
       ELSE /\ leased' = Pop(Trigger)
            /\ hevents' = Append(hevents, "pop")
            /\ UNCHANGED hlocal
            /\ hpc' = "unlock"
    /\ UNCHANGED <<scope_cfg, has_sweep_zoom, hcal, hpre, hresult, hcalls>>
    /\ UNCHANGED <<fitvars, lockvars, pdhvars, esvars, ilvars, dockvars>>

\* line 376, and 407-410 when the pool raises InsufficientResourceError
HF_ZoomPop ==
    /\ hpc = "pop"
    /\ IF ~PoolCanGrant
       THEN /\ hlocal' = [EmptyTriple(hlocal) EXCEPT !.zcause = "denied"]
            /\ hevents' = Append(hevents, "warning")
            /\ hpc' = "after_zoom"
            /\ UNCHANGED leased
       ELSE /\ leased' = Pop(Trigger)
            /\ hevents' = Append(hevents, "pop")
            /\ UNCHANGED hlocal
            /\ hpc' = "unlock"
    /\ UNCHANGED <<scope_cfg, has_sweep_zoom, sweep_running, hcal, hpre, hresult, hcalls>>
    /\ UNCHANGED <<fitvars, lockvars, pdhvars, esvars, ilvars, dockvars>>

\* an unlock that leaves the sweep running
HF_ZoomUnlock_KeepsSweeping ==
    /\ hpc = "unlock"
    /\ hevents' = Append(hevents, "unlock")
    /\ hpc' = "load"
    /\ UNCHANGED <<leased, scope_cfg, has_sweep_zoom, sweep_running, hcal, hlocal,
                   hpre, hresult, hcalls>>
    /\ UNCHANGED <<fitvars, lockvars, pdhvars, esvars, ilvars, dockvars>>

\* line 377: lockbox.unlock() turns the sweep off
HF_ZoomUnlock ==
    /\ hpc = "unlock"
    /\ sweep_running' = FALSE
    /\ hevents' = Append(hevents, "unlock")
    /\ hpc' = "load"
    /\ UNCHANGED <<leased, scope_cfg, has_sweep_zoom, hcal, hlocal, hpre, hresult,
                   hcalls>>
    /\ UNCHANGED <<fitvars, lockvars, pdhvars, esvars, ilvars, dockvars>>

\* a zoom that rescales whether or not a zoom state was saved
ZoomedScope_AlwaysRescales(cfg) ==
    LET auto == LoadState(cfg, AutosweepState)
    IN  [auto EXCEPT !.duration = (auto.duration * 20) \div Finesse,
                     !.trigger_source = "ch1_negative_edge",
                     !.hysteresis = 2000,
                     !.trigger_delay = 0]

\* lines 378-386: the saved zoom state, or a zoom by finesse / 20
ZoomedScope(cfg) ==
    LET auto == LoadState(cfg, AutosweepState)
    IN  IF has_sweep_zoom
        THEN LoadState(auto, SweepZoomState)
        ELSE [auto EXCEPT !.duration = (auto.duration * 20) \div Finesse,
                          !.trigger_source = "ch1_negative_edge",
                          !.hysteresis = 2000,
                          !.trigger_delay = 0]

HF_ZoomLoad ==
    /\ hpc = "load"
    /\ scope_cfg' = ZoomedScope(scope_cfg)
    /\ hevents' = Append(hevents, "load_state")
    /\ hpc' = "setup"
    /\ UNCHANGED <<leased, has_sweep_zoom, sweep_running, hcal, hlocal, hpre,
                   hresult, hcalls>>
    /\ UNCHANGED <<fitvars, lockvars, pdhvars, esvars, ilvars, dockvars>>

\* input2 of the call: the pdh signal for HighFinesseAnalogPdh (line 485)
Input2 == IF hlocal.variant = "HighFinesseAnalogPdh" THEN "pdh" ELSE ""

\* lines 387-392: threshold and inputs
HF_ZoomSetup ==
    /\ hpc = "setup"
    /\ scope_cfg' = [scope_cfg EXCEPT !.threshold = hlocal.threshold,
                                      !.input1 = Trigger,
                                      !.input2 = IF Input2 # "" THEN Input2 ELSE @]
    /\ hevents' = Append(hevents, "setup")
    /\ hpc' = "arm"
    /\ UNCHANGED <<leased, has_sweep_zoom, sweep_running, hcal, hlocal, hpre,
                   hresult, hcalls>>
    /\ UNCHANGED <<fitvars, lockvars, pdhvars, esvars, ilvars, dockvars>>

\* line 393: curve_async arms the acquisition
HF_ZoomArm ==
    /\ hpc = "arm"
    /\ scope_cfg' = [scope_cfg EXCEPT !.armed = TRUE]
    /\ hevents' = Append(hevents, "curve_async")
    /\ hpc' = "sweep"
    /\ UNCHANGED <<leased, has_sweep_zoom, sweep_running, hcal, hlocal, hpre,
                   hresult, hcalls>>
    /\ UNCHANGED <<fitvars, lockvars, pdhvars, esvars, ilvars, dockvars>>

\* line 394: lockbox._sweep()
HF_ZoomSweep ==
    /\ hpc = "sweep"
    /\ sweep_running' = TRUE
    /\ hevents' = Append(hevents, "_sweep")
    /\ hpc' = "await"
    /\ UNCHANGED <<leased, scope_cfg, has_sweep_zoom, hcal, hlocal, hpre, hresult,
                   hcalls>>
    /\ UNCHANGED <<fitvars, lockvars, pdhvars, esvars, ilvars, dockvars>>

\* line 418 drops the second curve of the triple (`curve1, _, times`), line
\* 483 keeps it
Keeps2 == hlocal.variant = "HighFinesseAnalogPdh"

\* lines 397, 404-406: the trigger came; the curves, the time axis and the
\* trigger phase are taken and the scope is given back
HF_ZoomResult ==
    /\ hpc = "await"
    /\ \E c1 \in ZoomCurves, c2 \in ZoomCurves, phase \in {0, 90} :
        /\ hlocal' = [hlocal EXCEPT !.curve1 = c1,
                                    !.curve2 = IF Keeps2 THEN c2 ELSE None,
                                    !.times = <<0, scope_cfg.duration>>,
                                    !.zcause = "curves"]
        /\ hcal' = [hcal EXCEPT ![Trigger].asg_phase = phase]
    /\ scope_cfg' = [scope_cfg EXCEPT !.armed = FALSE]
    /\ leased' = Release(Trigger)
    /\ hevents' = Append(hevents, "await_result")
    /\ hpc' = "after_zoom"
    /\ UNCHANGED <<has_sweep_zoom, sweep_running, hpre, hresult, hcalls>>
    /\ UNCHANGED <<fitvars, lockvars, pdhvars, esvars, ilvars, dockvars>>

\* a timeout handler that lets the TimeoutError go on to the caller
HF_ZoomTimeout_Reraises ==
    /\ hpc = "await"
    /\ hlocal' = [hlocal EXCEPT !.zcause = "timeout", !.zraised = TRUE]
    /\ leased' = Release(Trigger)
    /\ hevents' = Append(hevents, "await_result")
    /\ hresult' = Raised("TimeoutError")
    /\ hpc' = "idle"
    /\ UNCHANGED <<scope_cfg, has_sweep_zoom, sweep_running, hcal, hpre, hcalls>>
    /\ UNCHANGED <<fitvars, lockvars, pdhvars, esvars, ilvars, dockvars>>

\* a timeout handler that returns without the scope being given back
HF_ZoomTimeout_KeepsScope ==
    /\ hpc = "await"
    /\ hlocal' = [EmptyTriple(hlocal) EXCEPT !.zcause = "timeout"]
    /\ hevents' = Append(Append(hevents, "await_result"), "warning")
    /\ hpc' = "after_zoom"
    /\ UNCHANGED <<leased, scope_cfg, has_sweep_zoom, sweep_running, hcal, hpre,
                   hresult, hcalls>>
    /\ UNCHANGED <<fitvars, lockvars, pdhvars, esvars, ilvars, dockvars>>

\* lines 397-403: no trigger before the timeout; the empty triple is
\* returned from inside the `with` block, which gives the scope back
HF_ZoomTimeout ==
    /\ hpc = "await"
    /\ hlocal' = [EmptyTriple(hlocal) EXCEPT !.zcause = "timeout"]
    /\ leased' = Release(Trigger)
    /\ hevents' = Append(Append(hevents, "await_result"), "warning")
    /\ hpc' = "after_zoom"
    /\ UNCHANGED <<scope_cfg, has_sweep_zoom, sweep_running, hcal, hpre, hresult, hcalls>>
    /\ UNCHANGED <<fitvars, lockvars, pdhvars, esvars, ilvars, dockvars>>

\* lines 376-397: any other exception raised while the scope is held leaves
\* the `with` block, which gives the scope back, and goes on to the caller
\* of calibrate
HF_ZoomException ==
    /\ HoldsScope
    /\ hlocal' = [hlocal EXCEPT !.zcause = "exception", !.zraised = TRUE]
    /\ leased' = Release(Trigger)
    /\ hresult' = Raised("Exception")
    /\ hpc' = "idle"
    /\ UNCHANGED <<scope_cfg, has_sweep_zoom, sweep_running, hcal, hpre, hevents, hcalls>>
    /\ UNCHANGED <<fitvars, lockvars, pdhvars, esvars, ilvars, dockvars>>

----------------------------------------------------------------------------
(* back in calibrate *)

\* a pdh calibrate that takes its statistics from the trigger signal's curve
HF_Stats_FromTriggerCurve ==
    /\ hpc = "after_zoom"
    /\ IF hlocal.curve1 = None
       THEN /\ hresult' = Raised("TypeError")
            /\ hpc' = "idle"
            /\ UNCHANGED <<hlocal, hcal>>
       ELSE LET curve1 == Shift(hlocal.curve1, hcal[Trigger].analog_offset)
                curve2 == Shift(hlocal.curve2, hcal[Self].analog_offset)
            IN  /\ IF hlocal.variant = "HighFinesseAnalogPdh"
                   THEN /\ hlocal' = [hlocal EXCEPT !.curve1 = curve1, !.curve2 = curve2]
                        /\ hcal' = [hcal EXCEPT ![Self] =
                                     [StatsFromCurve(@, curve1) EXCEPT
                                        !.asg_phase = hcal[Trigger].asg_phase]]
                   ELSE /\ hlocal' = [hlocal EXCEPT !.curve1 = curve1]
                        /\ hcal' = [hcal EXCEPT ![Self] = StatsFromCurve(@, curve1)]
                /\ hpc' = "emit"
                /\ UNCHANGED hresult
    /\ UNCHANGED <<leased, scope_cfg, has_sweep_zoom, sweep_running, hpre, hevents,
                   hcalls>>
    /\ UNCHANGED <<fitvars, lockvars, pdhvars, esvars, ilvars, dockvars>>

\* lines 420-421 and 486-489: the offsets are subtracted in place and the
\* statistics taken; a curve that is None cannot be subtracted from
HF_Stats ==
    /\ hpc = "after_zoom"
    /\ IF hlocal.curve1 = None
       THEN /\ hresult' = Raised("TypeError")
            /\ hpc' = "idle"
            /\ UNCHANGED <<hlocal, hcal>>
       ELSE LET curve1 == Shift(hlocal.curve1, hcal[Trigger].analog_offset)
                curve2 == Shift(hlocal.curve2, hcal[Self].analog_offset)
            IN  /\ IF hlocal.variant = "HighFinesseAnalogPdh"
                   THEN /\ hlocal' = [hlocal EXCEPT !.curve1 = curve1, !.curve2 = curve2]
                        /\ hcal' = [hcal EXCEPT ![Self] =
                                     [StatsFromCurve(@, curve2) EXCEPT
                                        !.asg_phase = hcal[Trigger].asg_phase]]
                   ELSE /\ hlocal' = [hlocal EXCEPT !.curve1 = curve1]
                        /\ hcal' = [hcal EXCEPT ![Self] = StatsFromCurve(@, curve1)]
                /\ hpc' = "emit"
                /\ UNCHANGED hresult
    /\ UNCHANGED <<leased, scope_cfg, has_sweep_zoom, sweep_running, hpre, hevents,
                   hcalls>>
    /\ UNCHANGED <<fitvars, lockvars, pdhvars, esvars, ilvars, dockvars>>

\* lines 431 and 499: input_calibrated.emit([self])
HF_Emit ==
    /\ hpc = "emit"
    /\ hevents' = Append(hevents, "input_calibrated")
    /\ hlocal' = [hlocal EXCEPT !.notified = <<Self>>]
    /\ hpc' = "save"
    /\ UNCHANGED <<leased, scope_cfg, has_sweep_zoom, sweep_running, hcal,
                   hpre, hresult, hcalls>>
    /\ UNCHANGED <<fitvars, lockvars, pdhvars, esvars, ilvars, dockvars>>

\* lines 432-439 and 500-513: the curve (with the trigger curve as its child
\* for the pdh signal) is persisted when asked for
HF_Save ==
    /\ hpc = "save"
    /\ IF hlocal.autosave
       THEN LET newcurve ==
                  IF hlocal.variant = "HighFinesseAnalogPdh"
                  THEN [x |-> hlocal.times, y |-> hlocal.curve2,
                        params |-> SetupAttributes(hcal[Self]),
                        child |-> Some([x |-> hlocal.times, y |-> hlocal.curve1,
                                        params |-> SetupAttributes(hcal[Trigger])])]
                  ELSE [x |-> hlocal.times, y |-> hlocal.curve1,
                        params |-> SetupAttributes(hcal[Self]), child |-> None]
            IN  /\ hcal' = [hcal EXCEPT ![Self].curve = Some(newcurve)]
                /\ hevents' = Append(hevents, "save_curve")
                /\ hresult' = Returned(Some(newcurve))
       ELSE /\ hresult' = Returned(None)
            /\ UNCHANGED <<hcal, hevents>>
    /\ hpc' = "idle"
    /\ UNCHANGED <<leased, scope_cfg, has_sweep_zoom, sweep_running, hlocal, hpre,
                   hcalls>>
    /\ UNCHANGED <<fitvars, lockvars, pdhvars, esvars, ilvars, dockvars>>

HFNext ==
    \/ Other_Pop
    \/ Other_Free
    \/ HF_Call
    \/ HF_Coarse
    \/ HF_ThresholdStats
    \/ HF_Threshold
    \/ HF_ZoomPop
    \/ HF_ZoomUnlock
    \/ HF_ZoomLoad
    \/ HF_ZoomSetup
    \/ HF_ZoomArm
    \/ HF_ZoomSweep
    \/ HF_ZoomResult
    \/ HF_ZoomTimeout
    \/ HF_ZoomException
    \/ HF_Stats
    \/ HF_Emit
    \/ HF_Save

FitNext ==
    \/ FitCalibrate_Call
    \/ FitCalibrate_Acquire
    \/ FitCalibrate_Truncate
    \/ FitCalibrate_Fit
    \/ FitCalibrate_Validate
    \/ FitCalibrate_SetMin
    \/ FitCalibrate_SetMax
    \/ FitCalibrate_SetMean
    \/ FitCalibrate_SetRms
    \/ FitCalibrate_SetCenter
    \/ FitCalibrate_SetFwhm
    \/ FitCalibrate_Emit
    \/ FitCalibrate_Save

\* the calibration with a reader of the calibration data running beside it
FitReadNext ==
    \/ FitNext
    \/ ExpectedSignal_Read

----------------------------------------------------------------------------
(* DoublyResonantFabryPerot: the start offset of the resonance search.

   The voltages of this part are Python floats.  A float is modelled as a
   binary floating-point number with MantissaBits significant bits (53 in
   the interpreter), written as an integer number of grid steps; every
   arithmetic result is rounded to the nearest such number, ties to the
   even mantissa. *)

MantissaBits == 8

\* piezo voltages lie within -MaxVolt .. MaxVolt grid steps
MaxVolt == 256

RECURSIVE Pow2(_)
Pow2(n) == IF n = 0 THEN 1 ELSE 2 * Pow2(n - 1)

\* below this magnitude every grid step is a float
MantissaLimit == Pow2(MantissaBits)

RECURSIVE UlpFrom(_, _)
UlpFrom(a, u) == IF a < MantissaLimit * u THEN u ELSE UlpFrom(a, 2 * u)

\* spacing of the floats around x
Ulp(x) == UlpFrom(Abs(x), 1)

\* the float nearest to the real number x
Round(x) ==
    LET a  == Abs(x)
        u  == Ulp(x)
        q  == a \div u
        r  == a - q * u
        up == (2 * r > u) \/ (2 * r = u /\ q % 2 = 1)
        m  == IF up THEN (q + 1) * u ELSE q * u
    IN  IF x < 0 THEN -m ELSE m

Floats == {Round(x) : x \in -MaxVolt..MaxVolt}

\* C fmod: the exact remainder, with the sign of the dividend
Fmod(a, b) == IF a >= 0 THEN a % b ELSE -((-a) % b)

\* Python's float a % b for b > 0: fmod, then the divisor is added to a
\* negative remainder, and that sum is rounded like every float sum
PyMod(a, b) ==
    LET m == Fmod(a, b)
    IN  IF m < 0 THEN Round(m + b) ELSE m

\* a _new_lock_offset that starts at the resonance itself, not half a free
\* spectral range below it
NewLockOffset_WithoutHalfFsr(resonance, minimum_voltage, fsr) ==
    LET distance_to_minimum == Round(resonance - minimum_voltage)
    IN  Round(minimum_voltage + PyMod(distance_to_minimum, 2 * fsr))

\* lines 550-560; 0.5 * fsr and 2.0 * fsr are exact in binary floating point
NewLockOffset(resonance, minimum_voltage, fsr) ==
    LET distance_to_minimum == Round(resonance - minimum_voltage)
        new_distance_to_minimum == Round(distance_to_minimum - fsr \div 2)
    IN  Round(minimum_voltage + PyMod(new_distance_to_minimum, 2 * fsr))

\* the free spectral ranges tried: positive, with an exact half
FsrVoltages == {96, 256}

MinVoltages == {-MaxVolt, 0}

\* where the piezo output can sit when the lock is checked
PiezoMeans == {-MaxVolt, -72, 0, 60, MaxVolt}

LockInit ==
    /\ fsr_voltage \in FsrVoltages
    /\ resonance_voltage \in Floats
    /\ min_voltage \in MinVoltages
    /\ piezo_mean = 0
    /\ reset_offset \in BOOLEAN
    /\ stage1_offset = 0
    /\ current_state = "unlock"
    /\ lpc = "idle"
    /\ levents = <<>>
    /\ lcalls = 0
    /\ is_locked_result = "none"
    /\ used_offset = 0

\* an is_locked that takes the piezo mean whenever the lock check succeeds,
\* whatever the stage
IsLocked_IgnoresStage ==
    /\ lpc = "idle"
    /\ \E is_locked \in BOOLEAN :
        /\ resonance_voltage' = IF is_locked THEN piezo_mean ELSE resonance_voltage
        /\ is_locked_result' = IF is_locked THEN "locked" ELSE "not locked"
    /\ UNCHANGED <<fsr_voltage, min_voltage, piezo_mean, reset_offset,
                   stage1_offset, current_state, lpc, levents, lcalls, used_offset>>
    /\ UNCHANGED <<fitvars, hfvars, pdhvars, esvars, ilvars, dockvars>>

\* lines 534-542; what super().is_locked answers is up to the signals
IsLocked ==
    /\ lpc = "idle"
    /\ \E is_locked \in BOOLEAN :
        LET is_locked_and_final == is_locked /\ current_state = "final_stage"
        IN  /\ resonance_voltage' =
                   IF is_locked_and_final THEN piezo_mean ELSE resonance_voltage
            /\ is_locked_result' = IF is_locked THEN "locked" ELSE "not locked"
    /\ UNCHANGED <<fsr_voltage, min_voltage, piezo_mean, reset_offset,
                   stage1_offset, current_state, lpc, levents, lcalls, used_offset>>
    /\ UNCHANGED <<fitvars, hfvars, pdhvars, esvars, ilvars, dockvars>>

\* line 546
SwitchResonance_Unlock ==
    /\ lpc = "idle"
    /\ lcalls < MaxCalls
    /\ lcalls' = lcalls + 1
    /\ current_state' = "unlock"
    /\ levents' = <<"switch_resonance", "unlock">>
    /\ lpc' = "decrement"
    /\ UNCHANGED <<fsr_voltage, resonance_voltage, min_voltage, piezo_mean,
                   reset_offset, stage1_offset, is_locked_result, used_offset>>
    /\ UNCHANGED <<fitvars, hfvars, pdhvars, esvars, ilvars, dockvars>>

\* a switch_resonance that steps up instead of down
SwitchResonance_Decrement_Increments ==
    /\ lpc = "decrement"
    /\ resonance_voltage' = Round(resonance_voltage + fsr_voltage)
    /\ levents' = Append(levents, "decrement")
    /\ lpc' = "lock"
    /\ UNCHANGED <<fsr_voltage, min_voltage, piezo_mean, reset_offset,
                   stage1_offset, current_state, lcalls, is_locked_result,
                   used_offset>>
    /\ UNCHANGED <<fitvars, hfvars, pdhvars, esvars, ilvars, dockvars>>

\* line 547
SwitchResonance_Decrement ==
    /\ lpc = "decrement"
    /\ resonance_voltage' = Round(resonance_voltage - fsr_voltage)
    /\ levents' = Append(levents, "decrement")
    /\ lpc' = "lock"
    /\ UNCHANGED <<fsr_voltage, min_voltage, piezo_mean, reset_offset,
                   stage1_offset, current_state, lcalls, is_locked_result,
                   used_offset>>
    /\ UNCHANGED <<fitvars, hfvars, pdhvars, esvars, ilvars, dockvars>>

\* a lock that goes from unlock straight to the sequence of the base class
Lock_Unlock_SkipsSetup ==
    /\ \/ /\ lpc = "idle"
          /\ lcalls < MaxCalls
          /\ lcalls' = lcalls + 1
          /\ levents' = <<"lock", "unlock">>
       \/ /\ lpc = "lock"
          /\ levents' = Append(Append(levents, "lock"), "unlock")
          /\ UNCHANGED lcalls
    /\ current_state' = "unlock"
    /\ lpc' = "base_lock"
    /\ UNCHANGED <<fsr_voltage, resonance_voltage, min_voltage, piezo_mean,
                   reset_offset, stage1_offset, is_locked_result, used_offset>>
    /\ UNCHANGED <<fitvars, hfvars, pdhvars, esvars, ilvars, dockvars>>

\* line 575, entered from a caller (line 569) or from switch_resonance
\* (line 548)
Lock_Unlock ==
    /\ \/ /\ lpc = "idle"
          /\ lcalls < MaxCalls
          /\ lcalls' = lcalls + 1
          /\ levents' = <<"lock", "unlock">>
       \/ /\ lpc = "lock"
          /\ levents' = Append(Append(levents, "lock"), "unlock")
          /\ UNCHANGED lcalls
    /\ current_state' = "unlock"
    /\ lpc' = "setup_new_lock_offset"
    /\ UNCHANGED <<fsr_voltage, resonance_voltage, min_voltage, piezo_mean,
                   reset_offset, stage1_offset, is_locked_result, used_offset>>
    /\ UNCHANGED <<fitvars, hfvars, pdhvars, esvars, ilvars, dockvars>>

\* a setup_new_lock_offset that refuses a first stage that does not reset
\* the piezo offset
SetupNewLockOffset_RejectsMisconfiguration ==
    /\ lpc = "setup_new_lock_offset"
    /\ IF reset_offset
       THEN /\ stage1_offset' =
                   NewLockOffset(resonance_voltage, min_voltage, fsr_voltage)
            /\ levents' = Append(levents, "offset")
            /\ lpc' = "base_lock"
       ELSE /\ levents' = Append(levents, "raise")
            /\ lpc' = "idle"
            /\ UNCHANGED stage1_offset
    /\ UNCHANGED <<fsr_voltage, resonance_voltage, min_voltage, piezo_mean,
                   reset_offset, current_state, lcalls, is_locked_result,
                   used_offset>>
    /\ UNCHANGED <<fitvars, hfvars, pdhvars, esvars, ilvars, dockvars>>

\* lines 562-567
SetupNewLockOffset ==
    /\ lpc = "setup_new_lock_offset"
    /\ stage1_offset' = NewLockOffset(resonance_voltage, min_voltage, fsr_voltage)
    /\ levents' = IF reset_offset
                  THEN Append(levents, "offset")
                  ELSE Append(Append(levents, "warning"), "offset")
    /\ lpc' = "base_lock"
    /\ UNCHANGED <<fsr_voltage, resonance_voltage, min_voltage, piezo_mean,
                   reset_offset, current_state, lcalls, is_locked_result,
                   used_offset>>
    /\ UNCHANGED <<fitvars, hfvars, pdhvars, esvars, ilvars, dockvars>>

\* line 577: the sequence of the base class starts from the offset of the
\* first stage and gets as far as the cavity lets it; the piezo ends where
\* the lock put it
Lock_BaseLock ==
    /\ lpc = "base_lock"
    /\ used_offset' = stage1_offset
    /\ current_state' \in {"stage1", "final_stage"}
    /\ piezo_mean' \in PiezoMeans
    /\ levents' = Append(levents, "sequence")
    /\ lpc' = "idle"
    /\ UNCHANGED <<fsr_voltage, resonance_voltage, min_voltage, reset_offset,
                   stage1_offset, lcalls, is_locked_result>>
    /\ UNCHANGED <<fitvars, hfvars, pdhvars, esvars, ilvars, dockvars>>

LockNext ==
    \/ IsLocked
    \/ SwitchResonance_Unlock
    \/ SwitchResonance_Decrement
    \/ Lock_Unlock
    \/ SetupNewLockOffset
    \/ Lock_BaseLock

----------------------------------------------------------------------------
(* FPAnalogPdh._pdh_normalized: the choice of the x_max formula *)

\* sideband frequencies are in hundredths of a cavity bandwidth
MaxSbfreq == 200

\* line 194: the default of the sbfreq argument, 10.0
DefaultSbfreq == 1000

\* lines 222 and 225: 0.76
SbfreqLow == 76

\* line 222: 1.55
SbfreqHigh == 155

\* expected_signal passes mod_freq / bandwidth, which no code keeps positive
Sbfreqs == (-MaxSbfreq..MaxSbfreq) \cup {DefaultSbfreq}

\* a choice that takes the intermediate formula up to and including 1.55
XMaxFormula_UpToHigh(sbfreq) ==
    IF sbfreq > SbfreqLow /\ sbfreq <= SbfreqHigh THEN "intermediate"
    ELSE IF sbfreq <= SbfreqLow THEN "unresolved"
    ELSE "resolved"

\* lines 222-231: which branch computes x_max
XMaxFormula(sbfreq) ==
    IF sbfreq > SbfreqLow /\ sbfreq < SbfreqHigh THEN "intermediate"
    ELSE IF sbfreq <= SbfreqLow THEN "unresolved"
    ELSE "resolved"

PdhInit ==
    /\ pdh_sbfreq = DefaultSbfreq
    /\ pdh_x_max = "none"

PdhNormalized ==
    /\ \E sbfreq \in Sbfreqs :
          /\ pdh_sbfreq' = sbfreq
          /\ pdh_x_max' = XMaxFormula(sbfreq)
    /\ UNCHANGED <<fitvars, hfvars, lockvars, esvars, ilvars, dockvars>>

----------------------------------------------------------------------------
(* FPReflection.expected_signal and FPTransmission.expected_signal, in the
   float arithmetic above.  A grid step is 2^-FractionBits: One is the float
   1.0, and the grid step is the smallest spacing (where a double has its
   subnormals). *)

FractionBits == 10

One == Pow2(FractionBits)

\* the float nearest to the rational n / d, for d > 0
RoundQ(n, d) ==
    LET a  == Abs(n)
        u  == Ulp(a \div d)
        q  == a \div (d * u)
        r  == a - q * (d * u)
        up == (2 * r > d * u) \/ (2 * r = d * u /\ q % 2 = 1)
        m  == IF up THEN (q + 1) * u ELSE q * u
    IN  IF n < 0 THEN -m ELSE m

\* float product and quotient of two floats
FMul(a, b) == RoundQ(a * b, One)

FDiv(a, b) == IF b < 0 THEN RoundQ(-(a * One), -b) ELSE RoundQ(a * One, b)

\* lines 14-16: 1.0 / (1.0 + x ** 2)
Lorentz(x) == FDiv(One, Round(One + FMul(x, x)))

\* an expected reflection with the resonance as a peak on top of max
ReflectionSignal_AddsPeak(cd, setpoint, unit) ==
    LET detuning == FMul(setpoint, unit)
    IN  Round(cd.max + FMul(Round(cd.max - cd.min), Lorentz(detuning)))

\* lines 137-141
ReflectionSignal(cd, setpoint, unit) ==
    LET detuning == FMul(setpoint, unit)
    IN  Round(cd.max - FMul(Round(cd.max - cd.min), Lorentz(detuning)))

\* lines 162-166
TransmissionSignal(cd, setpoint, unit) ==
    LET detuning == FMul(setpoint, unit)
    IN  Round(cd.min + FMul(Round(cd.max - cd.min), Lorentz(detuning)))

ExpectedSignal(model, cd, setpoint, unit) ==
    IF model = "reflection"
    THEN ReflectionSignal(cd, setpoint, unit)
    ELSE TransmissionSignal(cd, setpoint, unit)

\* calibration voltages, in tenths of a volt
CalLevels == {RoundQ(k * One, 10) : k \in -10..10}

\* setpoints, in quarters of the setpoint unit
Setpoints == {RoundQ(k * One, 4) : k \in -8..8}

\* lockbox._setpoint_unit_in_unit('bandwidth'): 1.0 for 'bandwidth', 2.0
\* for 'linewidth'
UnitsInBandwidth == {One, 2 * One}

NoEsCall == [model |-> "none", setpoint |-> 0, unit |-> 0, value |-> 0]

EsInit ==
    /\ es_cal \in [min : CalLevels, max : CalLevels]
    /\ es_call = NoEsCall

ExpectedSignal_Call ==
    /\ \E model \in {"reflection", "transmission"}, setpoint \in Setpoints,
          unit \in UnitsInBandwidth :
          es_call' = [model |-> model, setpoint |-> setpoint, unit |-> unit,
                      value |-> ExpectedSignal(model, es_cal, setpoint, unit)]
    /\ UNCHANGED es_cal
    /\ UNCHANGED <<fitvars, hfvars, lockvars, pdhvars, ilvars, dockvars>>

EsUnused ==
    /\ es_cal = [min |-> 0, max |-> 0]
    /\ es_call = NoEsCall

----------------------------------------------------------------------------
(* is_locked of the input signals: FPAnalogPdh.is_locked and
   FPTilt.is_locked hand the question on to another input of the lockbox *)

\* the inputs of the lockbox (lines 264-266), and a tilt input
InputNames == {"reflection", "transmission", "pdh", "tilt"}

\* line 172: the options of is_locked_signal
IsLockedOptions == {"reflection", "transmission", "pdh"}

\* the last frame of the call stack
Top(stack) == stack[Len(stack)]

\* stack: the is_locked frames that are open; trace: every signal whose
\* is_locked was entered; checked: the signals whose own
\* measured-versus-expected check ran; measured: what that check answers
\* for each signal at the time of the call; selected: the is_locked_signal
\* the pdh signal has read (line 179)
NoIsLocked ==
    [pc |-> "idle", caller |-> "none", stack |-> <<>>, trace |-> <<>>,
     selected |-> "none",
     checked |-> <<>>, measured |-> [sg \in InputNames |-> FALSE],
     value |-> "none"]

IlInit ==
    /\ is_locked_signal = "reflection"
    /\ il = NoIsLocked

\* the SelectProperty is set
SetIsLockedSignal ==
    /\ il.pc = "idle"
    /\ \E option \in IsLockedOptions : is_locked_signal' = option
    /\ UNCHANGED il
    /\ UNCHANGED <<fitvars, hfvars, lockvars, pdhvars, esvars, dockvars>>

\* signal.is_locked() is called on one of the inputs
InputIsLocked_Call ==
    /\ il.pc = "idle"
    /\ \E signal \in InputNames, measured \in [InputNames -> BOOLEAN] :
          il' = [NoIsLocked EXCEPT !.pc = "running", !.caller = signal,
                                   !.stack = <<signal>>, !.trace = <<signal>>,
                                   !.measured = measured]
    /\ UNCHANGED is_locked_signal
    /\ UNCHANGED <<fitvars, hfvars, lockvars, pdhvars, esvars, dockvars>>

\* the frame's own check (InputSignal.is_locked) runs and answers
OwnCheck(signal) ==
    [il EXCEPT !.checked = Append(@, signal),
               !.value = IF il.measured[signal] THEN "locked" ELSE "not locked",
               !.pc = "returning"]

\* the frame calls is_locked of another input
Enter(signal) ==
    [il EXCEPT !.stack = Append(@, signal), !.trace = Append(@, signal)]

\* line 179: the pdh signal looks up the selected input
Selected(l) == [l EXCEPT !.selected = is_locked_signal]

\* a pdh signal that hands on to the selected signal without comparing it
\* with itself
InputIsLocked_Body_NoSelfTest ==
    /\ il.pc = "running"
    /\ LET self == Top(il.stack)
       IN  il' = IF self = "pdh" THEN Selected(Enter(is_locked_signal))
                 ELSE IF self = "tilt" THEN Enter("reflection")
                 ELSE OwnCheck(self)
    /\ UNCHANGED is_locked_signal
    /\ UNCHANGED <<fitvars, hfvars, lockvars, pdhvars, esvars, dockvars>>

\* the body of the frame on top: lines 177-183 for the pdh signal, line 257
\* for the tilt signal, the check of InputSignal for the others
InputIsLocked_Body ==
    /\ il.pc = "running"
    /\ LET self == Top(il.stack)
       IN  il' = IF self = "pdh"
                 THEN IF is_locked_signal = self
                      THEN Selected(OwnCheck(self))
                      ELSE Selected(Enter(is_locked_signal))
                 ELSE IF self = "tilt" THEN Enter("reflection")
                 ELSE OwnCheck(self)
    /\ UNCHANGED is_locked_signal
    /\ UNCHANGED <<fitvars, hfvars, lockvars, pdhvars, esvars, dockvars>>

\* `return ...is_locked(loglevel=loglevel)`: the frame on top returns what
\* it got
InputIsLocked_Return ==
    /\ il.pc = "returning"
    /\ il' = [il EXCEPT !.stack = SubSeq(@, 1, Len(@) - 1),
                        !.pc = IF Len(il.stack) = 1 THEN "idle" ELSE "returning"]
    /\ UNCHANGED is_locked_signal
    /\ UNCHANGED <<fitvars, hfvars, lockvars, pdhvars, esvars, dockvars>>

IlNext ==
    \/ SetIsLockedSignal
    \/ InputIsLocked_Call
    \/ InputIsLocked_Body
    \/ InputIsLocked_Return

LockUnused ==
    /\ fsr_voltage = 256
    /\ resonance_voltage = 0
    /\ min_voltage = 0
    /\ piezo_mean = 0
    /\ reset_offset = TRUE
    /\ stage1_offset = 0
    /\ current_state = "unlock"
    /\ lpc = "idle"
    /\ levents = <<>>
    /\ lcalls = 0
    /\ is_locked_result = "none"
    /\ used_offset = 0

----------------------------------------------------------------------------
(* PyrplWidget.add_dock_widget (pyrpl/widgets/pyrpl_widget.py): every dock
   widget gets a checkable action in the "Modules" menu, and two slots keep
   the action's check state and the dock widget's visibility in step.  The
   connections are direct, so Qt runs a slot inside the call that emits the
   signal: the running slots form a stack.  The widget flags are those of
   QWidget: hidden (WA_WState_Hidden), explicit (WA_WState_ExplicitShowHide)
   and visible (WA_WState_Visible, what isVisible() returns). *)
NumDocks == 3

\* slot activations per dock widget after which the model stops following
\* one user event
MaxRuns == 4

\* the software modules PyrplWidget.__init__ adds a dock widget for
Docks == 1..NumDocks

\* a dock widget and its action as add_dock_widget leaves them while the
\* main window is not shown yet: the widget is parented to the window and
\* was never shown or hidden by a call, the action is checkable, unchecked
NewDock ==
    [hidden |-> FALSE, explicit |-> FALSE, visible |-> FALSE,
     checked |-> FALSE, runs |-> 0]

DockInit ==
    /\ window_visible = FALSE
    /\ docks = [d \in Docks |-> NewDock]
    /\ dock_stack = <<>>

\* a connected slot that Qt has to call for dock widget d
Frame(slot, d) == [slot |-> slot, dock |-> d, pc |-> "call"]

\* dock_widget.setVisible(v): a no-op when the widget was already shown or
\* hidden that way by a call; it becomes visible only inside a visible
\* window, and visibilityChanged goes out when isVisible() changes
setVisible(ds, d, v) ==
    IF v
    THEN IF ds[d].explicit /\ ~ds[d].hidden
         THEN [docks |-> ds, emitted |-> <<>>]
         ELSE [docks |-> [ds EXCEPT ![d].explicit = TRUE,
                                    ![d].hidden = FALSE,
                                    ![d].visible = @ \/ window_visible],
               emitted |-> IF window_visible /\ ~ds[d].visible
                           THEN <<Frame("visibilityChanged", d)>>
                           ELSE <<>>]
    ELSE IF ds[d].explicit /\ ds[d].hidden
         THEN [docks |-> ds, emitted |-> <<>>]
         ELSE [docks |-> [ds EXCEPT ![d].explicit = TRUE,
                                    ![d].hidden = TRUE,
                                    ![d].visible = FALSE],
               emitted |-> IF ds[d].visible
                           THEN <<Frame("visibilityChanged", d)>>
                           ELSE <<>>]

\* action.setChecked(b): a no-op when the action is in that state already,
\* else the state changes and changed goes out
setChecked(ds, d, b) ==
    IF ds[d].checked = b
    THEN [docks |-> ds, emitted |-> <<>>]
    ELSE [docks |-> [ds EXCEPT ![d].checked = b],
          emitted |-> <<Frame("changed", d)>>]

OnActionChanged_ShowsOnly(ds, d) ==
    setVisible(ds, d, TRUE)

\* lambda:dock_widget.setVisible(action.isChecked())
OnActionChanged(ds, d) ==
    setVisible(ds, d, ds[d].checked)

\* lambda:action.setChecked(dock_widget.isVisible())
OnVisibilityChanged(ds, d) ==
    setChecked(ds, d, ds[d].visible)

\* a new event from the user or the program: the count of slot runs starts
\* again
Fresh == [d \in Docks |-> [docks[d] EXCEPT !.runs = 0]]

\* Qt sends the dock widgets in S their show or hide event one after the
\* other
Events(S) ==
    SelectSeq([d \in Docks |-> Frame("visibilityChanged", d)],
              LAMBDA f : f.dock \in S)

\* the user clicks the entry of dock widget d in the "Modules" menu of the
\* main window
MenuToggle ==
    /\ dock_stack = <<>>
    /\ window_visible
    /\ \E d \in Docks :
         LET r == setChecked(Fresh, d, ~docks[d].checked) IN
         /\ docks' = r.docks
         /\ dock_stack' = r.emitted
    /\ UNCHANGED window_visible
    /\ UNCHANGED <<fitvars, hfvars, lockvars, pdhvars, esvars, ilvars>>

\* dock widget d is shown (show()) or hidden (hide(), its close button)
DockShowHide ==
    /\ dock_stack = <<>>
    /\ \E d \in Docks, v \in BOOLEAN :
         LET r == setVisible(Fresh, d, v) IN
         /\ docks' = r.docks
         /\ dock_stack' = r.emitted
    /\ UNCHANGED window_visible
    /\ UNCHANGED <<fitvars, hfvars, lockvars, pdhvars, esvars, ilvars>>

\* the dock widgets are tabified: another tab is selected, a visible dock
\* widget d gets visibilityChanged and isVisible() stays as it is
TabChanged ==
    /\ dock_stack = <<>>
    /\ window_visible
    /\ \E d \in Docks :
         /\ docks[d].visible
         /\ dock_stack' = <<Frame("visibilityChanged", d)>>
    /\ docks' = Fresh
    /\ UNCHANGED window_visible
    /\ UNCHANGED <<fitvars, hfvars, lockvars, pdhvars, esvars, ilvars>>

\* the main window is shown: its dock widgets that are not hidden become
\* visible
WindowShow ==
    /\ dock_stack = <<>>
    /\ ~window_visible
    /\ window_visible' = TRUE
    /\ docks' = [d \in Docks |->
                   IF Fresh[d].hidden
                   THEN Fresh[d]
                   ELSE [Fresh[d] EXCEPT !.explicit = TRUE, !.visible = TRUE]]
    /\ dock_stack' = Events({d \in Docks : ~docks[d].hidden})
    /\ UNCHANGED <<fitvars, hfvars, lockvars, pdhvars, esvars, ilvars>>

\* the main window is hidden or closed: its visible dock widgets stop being
\* visible
WindowHide ==
    /\ dock_stack = <<>>
    /\ window_visible
    /\ window_visible' = FALSE
    /\ docks' = [d \in Docks |-> [Fresh[d] EXCEPT !.visible = FALSE]]
    /\ dock_stack' = Events({d \in Docks : docks[d].visible})
    /\ UNCHANGED <<fitvars, hfvars, lockvars, pdhvars, esvars, ilvars>>

\* Qt calls the slot on top of the stack; what the slot's call emits is
\* delivered before the slot returns
RunSlot ==
    /\ dock_stack /= <<>>
    /\ LET top == Head(dock_stack)
           r == IF top.slot = "changed"
                THEN OnActionChanged(docks, top.dock)
                ELSE OnVisibilityChanged(docks, top.dock)
       IN
       /\ top.pc = "call"
       /\ docks[top.dock].runs < MaxRuns
       /\ docks' = [r.docks EXCEPT ![top.dock].runs = @ + 1]
       /\ dock_stack' =
            r.emitted \o <<[top EXCEPT !.pc = "ret"]>> \o Tail(dock_stack)
    /\ UNCHANGED window_visible
    /\ UNCHANGED <<fitvars, hfvars, lockvars, pdhvars, esvars, ilvars>>

\* the slot on top of the stack returns
ReturnSlot ==
    /\ dock_stack /= <<>>
    /\ Head(dock_stack).pc = "ret"
    /\ dock_stack' = Tail(dock_stack)
    /\ UNCHANGED <<window_visible, docks>>
    /\ UNCHANGED <<fitvars, hfvars, lockvars, pdhvars, esvars, ilvars>>

DockNext ==
    \/ MenuToggle
    \/ DockShowHide
    \/ TabChanged
    \/ WindowShow
    \/ WindowHide
    \/ RunSlot
    \/ ReturnSlot

----------------------------------------------------------------------------
\* the part of the system a specification leaves alone stays as constructed
HFUnused ==
    /\ has_sweep_zoom = FALSE
    /\ hcal = [sg \in HSignals |-> DefaultHCal]
    /\ HFIdle

FitUnused ==
    /\ negative = FALSE
    /\ FitIdle

InitFit == FitInit /\ HFUnused /\ LockUnused /\ PdhInit /\ EsUnused /\ IlInit /\ DockInit

InitZoom == HFInit /\ FitUnused /\ LockUnused /\ PdhInit /\ EsUnused /\ IlInit /\ DockInit

InitLock == LockInit /\ FitUnused /\ HFUnused /\ PdhInit /\ EsUnused /\ IlInit /\ DockInit

InitPdh == PdhInit /\ FitUnused /\ HFUnused /\ LockUnused /\ EsUnused /\ IlInit /\ DockInit

InitEs == EsInit /\ FitUnused /\ HFUnused /\ LockUnused /\ PdhInit /\ IlInit /\ DockInit

InitIl == IlInit /\ FitUnused /\ HFUnused /\ LockUnused /\ PdhInit /\ EsUnused /\ DockInit

SpecFit == InitFit /\ [][FitNext]_vars

SpecFitRead == InitFit /\ [][FitReadNext]_vars

SpecZoom == InitZoom /\ [][HFNext]_vars

SpecLock == InitLock /\ [][LockNext]_vars

SpecPdh == InitPdh /\ [][PdhNormalized]_vars

SpecEs == InitEs /\ [][ExpectedSignal_Call]_vars

SpecIl == InitIl /\ [][IlNext]_vars

InitDock ==
    DockInit /\ FitUnused /\ HFUnused /\ LockUnused /\ PdhInit /\ EsUnused /\ IlInit

SpecDock == InitDock /\ [][DockNext]_vars

\* calibrate called on a signal of either kind: a FitInput, or the inputs
\* of a high-finesse cavity
InitCalibrate == InitFit \/ InitZoom

CalibrateNext ==
    \/ HFUnused /\ FitNext
    \/ FitUnused /\ HFNext

SpecCalibrate == InitCalibrate /\ [][CalibrateNext]_vars

----------------------------------------------------------------------------
(* Properties of FitInput.calibrate *)

FitErrors == {"FitError: unexpected", "FitError: minimum", "FitError: maximum"}

FitCallEnded == fpc = "idle" /\ fresult.kind # "none"

HFCallEnded == hpc = "idle" /\ hresult.kind # "none"

\* C1: whenever FitInput.calibrate ends by raising FitError, min, max, mean,
\* rms, center and fwhm of the calibration data hold the values they had
\* before the call.
C1_FitErrorKeepsCommitted ==
    (FitCallEnded /\ fresult.kind = "raise" /\ fresult.error \in FitErrors)
        => Committed(calibration_data) = Committed(fpre)

\* C1 witness: a call that started from an earlier, committed calibration
\* has ended with the FitError of the minimum check.
C1_Witness ==
    /\ FitCallEnded
    /\ fresult.error = "FitError: minimum"
    /\ Committed(fpre) # Committed(DefaultCalibration)
    /\ flocal.minimum # fpre.min

\* C5: when sweep_acquire yields no curve, FitInput.calibrate returns the
\* 'no result' value, raises nothing and leaves the calibration data alone.
C5_NoCurveReturnsNoResult ==
    (FitCallEnded /\ flocal.curve = None)
        => /\ fresult.kind = "return"
           /\ fresult.value = None
           /\ calibration_data = fpre

\* C9: a reader running beside calibrate sees either the values before the
\* call or the values the call commits, never a mixture (here: of min and
\* max).
C9_ReaderSeesOldOrNew ==
    seen # None
        => \/ seen = <<fpre.min, fpre.max>>
           \/ seen = <<flocal.minimum, flocal.maximum>>

\* C10: after a FitInput.calibrate call that raises FitError because the
\* fitted minimum or maximum is out of tolerance, the measured x/y samples
\* of the calibration data still hold their values from before the call.
C10_FailedValidationKeepsMeasured ==
    (FitCallEnded /\ fresult.error \in {"FitError: minimum", "FitError: maximum"})
        => /\ calibration_data.measured_x = fpre.measured_x
           /\ calibration_data.measured_y = fpre.measured_y

\* the value of `return None` on line 64, the 'no result' of an aborted call
NoResultValue == None

\* a converged fit handed its four values to the checks of lines 70-76
FitChecked ==
    /\ FitCallEnded
    /\ flocal.curve # None
    /\ flocal.fit_raised = ""
    /\ flocal.converged
    /\ flocal.fit_fwhm # 0

\* C11: FitInput.calibrate commits a fit only if the fitted minimum lies
\* within atol of the curve minimum and the fitted maximum within atol of the
\* curve maximum; otherwise it raises FitError, the error of the minimum
\* when the minimum fails (also when both fail), and a distinct error of the
\* maximum when only the maximum fails.
C11_CommitsOnlyWithinAtol ==
    FitChecked
        => LET minimum_ok == Abs(SeqMin(flocal.curve) - flocal.minimum) <= Atol
               maximum_ok == Abs(SeqMax(flocal.curve) - flocal.maximum) <= Atol
           IN  IF ~minimum_ok
               THEN fresult = Raised("FitError: minimum")
               ELSE IF ~maximum_ok
               THEN fresult = Raised("FitError: maximum")
               ELSE fresult.kind = "return"

\* C12: every failure inside the fit step (the fit raises, does not
\* converge, or yields an inverted peak) reaches the caller of
\* FitInput.calibrate as a FitError, never as another exception and never as
\* a successful return.
C12_FitFailureIsFitError ==
    (FitCallEnded /\ flocal.curve # None /\ (flocal.fit_raised # "" \/ ~flocal.converged))
        => /\ fresult.kind = "raise"
           /\ fresult.error \in FitErrors

\* C14: the value a successful calibrate call without persistence returns
\* differs from the 'no result' value returned when no scope was available.
C14_SuccessDiffersFromNoResult ==
    (FitCallEnded /\ fresult.kind = "return" /\ ~flocal.autosave /\ flocal.converged
        /\ Committed(calibration_data) = <<flocal.minimum, flocal.maximum, Mean(flocal.curve),
                                            Std(flocal.curve), flocal.centre_voltage,
                                            flocal.fit_fwhm>>)
        => fresult.value # NoResultValue

Count(log, e) == Cardinality({i \in DOMAIN log : log[i] = e})

Before(log, a, b) ==
    \A i, j \in DOMAIN log : (log[i] = a /\ log[j] = b) => i < j

\* the six values FitInput.calibrate commits (lines 78-83)
FitNewValues ==
    <<flocal.minimum, flocal.maximum, Mean(flocal.curve), Std(flocal.curve),
      flocal.centre_voltage, flocal.fit_fwhm>>

\* the statistics HighFinesseInput.calibrate / HighFinesseAnalogPdh.calibrate
\* commit (lines 421 and 488)
HFNewValues ==
    LET curve == IF hlocal.variant = "HighFinesseAnalogPdh"
                 THEN hlocal.curve2 ELSE hlocal.curve1
    IN  <<SeqMin(curve), SeqMax(curve), Mean(curve), Std(curve)>>

----------------------------------------------------------------------------
(* Properties of the two-stage acquisition *)

IsEmptyTriple(l) == l.curve1 = None /\ l.curve2 = None /\ l.times = None

\* C2: when the pool denies the lease, sweep_acquire_zoom returns
\* (None, None, None), raises nothing, and the pool occupancy at its return
\* is the occupancy at its entry.
C2_DeniedLeaseReturnsEmptyTriple ==
    hlocal.zcause = "denied"
        => /\ ~hlocal.zraised
           /\ IsEmptyTriple(hlocal)
           /\ leased["reflection"] = 0
           /\ hpc = "after_zoom" => Occupancy = hlocal.occupancy

\* C2 witness: sweep_acquire_zoom has just returned from a denied lease,
\* with every scope of the pool held by somebody else.
C2_Witness ==
    /\ hpc = "after_zoom"
    /\ hlocal.zcause = "denied"
    /\ hlocal.occupancy = NumScopes
    /\ leased["other"] = NumScopes

\* C3: when the acquisition does not resolve before the timeout,
\* sweep_acquire_zoom returns (None, None, None) and does not raise.
C3_TimeoutReturnsEmptyTriple ==
    hlocal.zcause = "timeout"
        => /\ ~hlocal.zraised
           /\ IsEmptyTriple(hlocal)
           /\ hpc = "after_zoom" => hresult.kind = "none"

\* C3 witness: sweep_acquire_zoom has just returned from a timeout, after
\* the scope was armed and the sweep restarted.
C3_Witness ==
    /\ hpc = "after_zoom"
    /\ hlocal.zcause = "timeout"
    /\ scope_cfg.armed
    /\ sweep_running

\* C4: the scope leased to sweep_acquire_zoom is held exactly while the call
\* is inside its `with` block; after any sequence of calls, however each
\* ended, no scope remains leased to the signal.
C4_LeaseReleasedOnEveryExit ==
    leased["reflection"] = IF HoldsScope THEN 1 ELSE 0

\* C4 witness: a second call has ended with an exception raised while the
\* scope was held, after the first one ended in a timeout or with curves,
\* and the signal holds no scope.
C4_Witness ==
    /\ HFCallEnded
    /\ hcalls = 2
    /\ hlocal.zcause = "exception"
    /\ hresult.error = "Exception"
    /\ leased["reflection"] = 0

\* C6: when the zoomed stage ends in a timeout or in pool exhaustion, the
\* calibrate call returns 'no result': no exception, min/max/mean/rms
\* unchanged, no input_calibrated notification.
C6_EmptyZoomGivesNoResult ==
    (HFCallEnded /\ hlocal.zcause \in {"timeout", "denied"})
        => /\ hresult.kind = "return"
           /\ hresult.value = None
           /\ Stats(hcal[Self]) = Stats(hpre[Self])
           /\ \A i \in DOMAIN hevents : hevents[i] # "input_calibrated"

ZoomOrder ==
    <<"pop", "unlock", "load_state", "setup", "curve_async", "_sweep", "await_result">>

IsZoomEvent(e) == \E i \in DOMAIN ZoomOrder : ZoomOrder[i] = e

ZoomTrace == SelectSeq(hevents, IsZoomEvent)

Done(e) == \E i \in DOMAIN hevents : hevents[i] = e

\* C8: in a sweep_acquire_zoom that obtains a scope the sweep is stopped,
\* then the scope is set up with the threshold, then the acquisition is
\* armed, then the sweep is restarted, and only then is the result awaited;
\* the sweep does not run between the stop and the restart.
C8_ArmedBeforeSweepRestart ==
    /\ Len(ZoomTrace) <= Len(ZoomOrder)
    /\ ZoomTrace = SubSeq(ZoomOrder, 1, Len(ZoomTrace))
    /\ (Done("unlock") /\ ~Done("_sweep")) => ~sweep_running
    /\ Done("curve_async") => scope_cfg.threshold = hlocal.threshold
    /\ (Done("curve_async") /\ ~Done("await_result")) => scope_cfg.armed
    /\ hpc = "await" => (sweep_running /\ scope_cfg.armed)

\* C8 witness: the call waits for the result, having stopped a running
\* sweep, set up and armed the scope and restarted the sweep, in that order.
C8_Witness ==
    /\ hpc = "await"
    /\ hevents = SubSeq(ZoomOrder, 1, 6)
    /\ sweep_running
    /\ scope_cfg.armed
    /\ scope_cfg.threshold = hlocal.threshold

----------------------------------------------------------------------------
(* Properties of the doubly-resonant offset search *)

InSearchRange(offset) ==
    0 <= offset - min_voltage /\ offset - min_voltage < 2 * fsr_voltage

\* C7: for every resonance_voltage, minimum_voltage and fsr_voltage > 0 the
\* start offset computed by _new_lock_offset satisfies
\* 0 <= new_offset - minimum_voltage < 2 * fsr_voltage, also where the
\* operand of the modulo is negative; checked on the offset that
\* setup_new_lock_offset has just computed and written into the first stage.
C7_OffsetWithinTwoFsr ==
    lpc = "base_lock"
        => /\ stage1_offset = NewLockOffset(resonance_voltage, min_voltage, fsr_voltage)
           /\ InSearchRange(stage1_offset)

\* the events of one lock call, without and with the warning of line 565
LockEvents == <<"lock", "unlock", "offset", "sequence">>

LockEventsWarned == <<"lock", "unlock", "warning", "offset", "sequence">>

\* the events of the lock call that is running or has run last (a
\* switch_resonance logs three events before it)
LockLog ==
    IF levents # <<>> /\ levents[1] = "switch_resonance"
    THEN SubSeq(levents, 4, Len(levents))
    ELSE levents

IsPrefix(s, t) == Len(s) <= Len(t) /\ s = SubSeq(t, 1, Len(s))

C15_Step ==
    /\ IsPrefix(LockLog', IF reset_offset THEN LockEvents ELSE LockEventsWarned)
    /\ (lpc' = "setup_new_lock_offset" /\ lpc # lpc') => current_state' = "unlock"
    /\ (lpc' = "base_lock" /\ lpc # lpc')
           => /\ lpc = "setup_new_lock_offset"
              /\ current_state = "unlock"
              /\ stage1_offset' = NewLockOffset(resonance_voltage, min_voltage, fsr_voltage)
    /\ (current_state = "unlock" /\ current_state' # "unlock")
           => /\ lpc = "base_lock"
              /\ stage1_offset = NewLockOffset(resonance_voltage, min_voltage, fsr_voltage)
              /\ used_offset' = stage1_offset

\* C15: every call of DoublyResonantFabryPerot.lock, from whatever state,
\* first unlocks, then writes the recomputed start offset into the piezo
\* output of stage 1, and only then starts the lock sequence of the base
\* class; the offset the sequence starts from is the one computed in this
\* call.
C15_LockUnlocksThenSetsOffset == [][C15_Step]_vars

\* C15 witness: a second lock call, made after an earlier sequence had
\* reached a stage, has run its sequence from the offset it computed.
C15_Witness ==
    /\ lpc = "idle"
    /\ lcalls = 2
    /\ levents = LockEvents
    /\ used_offset = stage1_offset
    /\ used_offset = NewLockOffset(resonance_voltage, min_voltage, fsr_voltage)
    /\ current_state = "final_stage"

C16_Step ==
    /\ fsr_voltage' = fsr_voltage
    /\ resonance_voltage' # resonance_voltage
           => \/ /\ lpc = "idle" /\ lpc' = "idle"
                 /\ is_locked_result' = "locked"
                 /\ current_state = "final_stage"
                 /\ resonance_voltage' = piezo_mean
              \/ /\ lpc = "decrement" /\ lpc' = "lock"
                 /\ resonance_voltage' = Round(resonance_voltage - fsr_voltage)
    /\ (lpc = "idle" /\ lpc' = "idle"
            /\ (is_locked_result' = "not locked" \/ current_state # "final_stage"))
           => resonance_voltage' = resonance_voltage

\* C16: resonance_voltage changes in two ways only: is_locked sets it to the
\* piezo mean when the check succeeds in the final stage, and
\* switch_resonance decrements it; an is_locked that reports not locked, or
\* runs in another stage, leaves it alone; fsr_voltage is changed by none of
\* is_locked, switch_resonance, setup_new_lock_offset and lock.
C16_ResonanceVoltageFrame == [][C16_Step]_vars

\* C16 witness: after a lock that reached the final stage, is_locked has
\* answered locked and resonance_voltage is the piezo mean.
C16_Witness ==
    /\ lpc = "idle"
    /\ lcalls >= 1
    /\ is_locked_result = "locked"
    /\ current_state = "final_stage"
    /\ piezo_mean = 60
    /\ resonance_voltage = piezo_mean

\* x is a multiple of period, give or take slack
CloseMod(x, period, slack) ==
    LET r == x % period
    IN  r <= slack \/ period - r <= slack

\* what the float roundings of two offset computations and one subtraction
\* can add up to: five spacings of the floats at the largest magnitude the
\* computations meet
RoundingSlack(resonance) ==
    5 * Ulp(Abs(resonance) + Abs(min_voltage) + 3 * fsr_voltage)

SwitchEvents ==
    <<"switch_resonance", "unlock", "decrement">>
        \o (IF reset_offset THEN LockEvents ELSE LockEventsWarned)

InSwitch == levents # <<>> /\ levents[1] = "switch_resonance"

C17_Step ==
    /\ InSwitch' => IsPrefix(levents', SwitchEvents)
    /\ (lpc = "decrement" /\ lpc' # lpc)
           => /\ current_state = "unlock"
              /\ resonance_voltage' = Round(resonance_voltage - fsr_voltage)
              /\ CloseMod(NewLockOffset(resonance_voltage', min_voltage, fsr_voltage)
                            - NewLockOffset(resonance_voltage, min_voltage, fsr_voltage)
                            - fsr_voltage,
                          2 * fsr_voltage, RoundingSlack(resonance_voltage))
    /\ (InSwitch /\ lpc \in {"lock", "setup_new_lock_offset", "base_lock"})
           => resonance_voltage' = resonance_voltage
    /\ (InSwitch /\ lpc = "setup_new_lock_offset" /\ lpc' # lpc)
           => stage1_offset' = NewLockOffset(resonance_voltage, min_voltage, fsr_voltage)

\* C17 as amended: switch_resonance unlocks, then decrements
\* resonance_voltage by one fsr_voltage (one float subtraction), then
\* relocks; the start offset of that relock is computed from the decremented
\* resonance_voltage, so that, give or take the rounding of the float
\* operations, it differs from the start offset of the resonance_voltage
\* before the switch by fsr_voltage modulo 2 * fsr_voltage.
C17_SwitchDecrementsThenRelocks == [][C17_Step]_vars

\* C17 witness: a switch_resonance has run to the end of its relock, from
\* the offset of the decremented resonance_voltage.
C17_Witness ==
    /\ lpc = "idle"
    /\ levents = SwitchEvents
    /\ used_offset = NewLockOffset(resonance_voltage, min_voltage, fsr_voltage)
    /\ resonance_voltage < -MaxVolt

C17_ExactStep ==
    /\ InSwitch' => IsPrefix(levents', SwitchEvents)
    /\ (lpc = "decrement" /\ lpc' # lpc)
           => /\ current_state = "unlock"
              /\ resonance_voltage' = Round(resonance_voltage - fsr_voltage)
              /\ CloseMod(NewLockOffset(resonance_voltage', min_voltage, fsr_voltage)
                            - NewLockOffset(resonance_voltage, min_voltage, fsr_voltage)
                            - fsr_voltage,
                          2 * fsr_voltage, 0)

\* C17: switch_resonance unlocks, then decrements resonance_voltage by one
\* fsr_voltage, then relocks; the start offset of that relock differs from
\* the start offset of the resonance_voltage before the switch by exactly
\* fsr_voltage modulo 2 * fsr_voltage.
C17_SwitchOffsetDiffersByFsr == [][C17_ExactStep]_vars

\* by how many free spectral ranges the cavity may have drifted
Drifts == -2..2

\* C18: the start offset _new_lock_offset has returned lies half an FSR
\* below a resonance position: new_offset + 0.5 * fsr_voltage differs from
\* resonance_voltage by an integer multiple of fsr_voltage, and the offset
\* is the same for two resonance_voltage values that differ by any integer
\* multiple of fsr_voltage.
C18_OffsetSameForAnyFsrMultiple ==
    lpc = "base_lock"
        => /\ (stage1_offset + fsr_voltage \div 2 - resonance_voltage) % fsr_voltage = 0
           /\ \A k \in Drifts :
                 NewLockOffset(Round(resonance_voltage + k * fsr_voltage),
                               min_voltage, fsr_voltage) = stage1_offset

\* C18 as amended: give or take the rounding of the float operations,
\* new_offset + 0.5 * fsr_voltage differs from resonance_voltage by an
\* integer multiple of fsr_voltage, and the offset is the same, modulo
\* 2 * fsr_voltage, for two resonance_voltage values that differ by an
\* integer multiple of 2 * fsr_voltage.
C18_OffsetSameForEvenFsrMultiple ==
    lpc = "base_lock"
        => /\ CloseMod(stage1_offset + fsr_voltage \div 2 - resonance_voltage,
                       fsr_voltage, RoundingSlack(resonance_voltage))
           /\ \A k \in Drifts :
                 LET drifted == Round(resonance_voltage + 2 * k * fsr_voltage)
                 IN  CloseMod(NewLockOffset(drifted, min_voltage, fsr_voltage)
                                - stage1_offset,
                              2 * fsr_voltage,
                              RoundingSlack(resonance_voltage) + RoundingSlack(drifted))

\* C18 witness: the offset has been computed for a resonance_voltage that
\* is more than one free spectral range away from it.
C18_Witness ==
    /\ lpc = "base_lock"
    /\ stage1_offset = NewLockOffset(resonance_voltage, min_voltage, fsr_voltage)
    /\ stage1_offset - resonance_voltage > fsr_voltage

Last(log) == log[Len(log)]

\* C19: when the first stage's piezo output is not configured to reset its
\* offset, setup_new_lock_offset logs a warning and still writes the
\* recomputed offset into stage 1, and lock still runs the lock sequence:
\* nothing is raised and the lock is not held back.
C19_MisconfigurationOnlyWarns ==
    ~reset_offset
        => /\ \A i \in DOMAIN levents : levents[i] # "raise"
           /\ lpc = "base_lock"
                 => /\ IsPrefix(LockLog, LockEventsWarned)
                    /\ Last(levents) = "offset"
                    /\ stage1_offset =
                           NewLockOffset(resonance_voltage, min_voltage, fsr_voltage)
           /\ (lpc = "idle" /\ lcalls > 0)
                 => /\ LockLog = LockEventsWarned
                    /\ used_offset = stage1_offset
                    /\ current_state # "unlock"

\* C19 witness: with a first stage that does not reset the piezo offset, a
\* lock call has warned, written the offset and locked to the final stage.
C19_Witness ==
    /\ ~reset_offset
    /\ lpc = "idle"
    /\ levents = LockEventsWarned
    /\ used_offset = stage1_offset
    /\ current_state = "final_stage"

----------------------------------------------------------------------------
(* Properties of FPAnalogPdh._pdh_normalized *)

\* C20: the normalisation takes its x_max formula from exactly one of three
\* regimes: the resolved formula if and only if sbfreq > 1.55, the
\* unresolved formula if and only if sbfreq <= 0.76, and the intermediate
\* formula if and only if 0.76 < sbfreq <= 1.55.
C20_RegimesUpperInclusive ==
    pdh_x_max # "none"
        => /\ pdh_x_max \in {"resolved", "unresolved", "intermediate"}
           /\ pdh_x_max = "resolved" <=> pdh_sbfreq > SbfreqHigh
           /\ pdh_x_max = "unresolved" <=> pdh_sbfreq <= SbfreqLow
           /\ pdh_x_max = "intermediate"
                  <=> (SbfreqLow < pdh_sbfreq /\ pdh_sbfreq <= SbfreqHigh)

\* C20 as amended: the resolved formula if and only if sbfreq >= 1.55, the
\* unresolved formula if and only if sbfreq <= 0.76, and the intermediate
\* formula if and only if 0.76 < sbfreq < 1.55.
C20_RegimesUpperExclusive ==
    pdh_x_max # "none"
        => /\ pdh_x_max \in {"resolved", "unresolved", "intermediate"}
           /\ pdh_x_max = "resolved" <=> pdh_sbfreq >= SbfreqHigh
           /\ pdh_x_max = "unresolved" <=> pdh_sbfreq <= SbfreqLow
           /\ pdh_x_max = "intermediate"
                  <=> (SbfreqLow < pdh_sbfreq /\ pdh_sbfreq < SbfreqHigh)

\* C20 witness: a call with sbfreq = 1.55 has normalised with the resolved
\* formula.
C20_Witness ==
    /\ pdh_sbfreq = SbfreqHigh
    /\ pdh_x_max = "resolved"

----------------------------------------------------------------------------
(* Properties of the expected signals *)

EsCalled == es_call.model # "none" /\ es_cal.min <= es_cal.max

\* what the roundings of the subtraction, the product and the last sum can
\* add up to: two spacings of the floats at the magnitude of min and max
EsSlack == 2 * Ulp(Abs(es_cal.min) + Abs(es_cal.max))

\* C21: with calibration min <= max, the expected signal of the reflection
\* model at zero setpoint equals the calibration min and that of the
\* transmission model equals the calibration max, and for every setpoint
\* both models return a value inside [min, max] that is the same for
\* +setpoint and -setpoint.
C21_ExtremalInRangeSymmetric ==
    EsCalled
        => /\ (es_call.setpoint = 0 /\ es_call.model = "reflection")
                 => es_call.value = es_cal.min
           /\ (es_call.setpoint = 0 /\ es_call.model = "transmission")
                 => es_call.value = es_cal.max
           /\ es_cal.min <= es_call.value /\ es_call.value <= es_cal.max
           /\ es_call.value =
                 ExpectedSignal(es_call.model, es_cal, -es_call.setpoint, es_call.unit)

\* C21 as amended: the same, give or take the rounding of the float
\* operations for the values at zero setpoint and for the range; the
\* symmetry is exact.
C21_ExtremalInRangeUpToRounding ==
    EsCalled
        => /\ (es_call.setpoint = 0 /\ es_call.model = "reflection")
                 => Abs(es_call.value - es_cal.min) <= EsSlack
           /\ (es_call.setpoint = 0 /\ es_call.model = "transmission")
                 => Abs(es_call.value - es_cal.max) <= EsSlack
           /\ es_cal.min - EsSlack <= es_call.value
           /\ es_call.value <= es_cal.max + EsSlack
           /\ es_call.value =
                 ExpectedSignal(es_call.model, es_cal, -es_call.setpoint, es_call.unit)

\* C21 witness: the reflection model has been evaluated at zero setpoint
\* for a calibration with min < max, and the result is not exactly min.
C21_Witness ==
    /\ EsCalled
    /\ es_cal.min < es_cal.max
    /\ es_call.model = "reflection"
    /\ es_call.setpoint = 0
    /\ es_call.value # es_cal.min
    /\ Abs(es_call.value - es_cal.min) <= EsSlack

----------------------------------------------------------------------------
(* Properties of is_locked of the input signals *)

IlAnswer(signal) == IF il.measured[signal] THEN "locked" ELSE "not locked"

IlEnded == il.pc = "idle" /\ il.caller # "none"

----------------------------------------------------------------------------
(* FitInput.calibrate works on the first half of the sweep *)

\* the positions of calibrate after the sweep has been cut
AfterTruncate ==
    {"fit", "validate", "set_min", "set_max", "set_mean", "set_rms",
     "set_center", "set_fwhm", "emit", "save"}

C23_Step ==
    /\ (fpc = "truncate" /\ fpc' = "fit")
           => /\ flocal'.curve = Take(flocal.curve, Len(flocal.curve) \div 2)
              /\ flocal'.voltage = Take(flocal.voltage, Len(flocal.curve) \div 2)
    /\ fpc \in AfterTruncate
           => /\ flocal'.curve = flocal.curve
              /\ flocal'.voltage = flocal.voltage
    /\ (fpc = "fit" /\ fpc' = "validate")
           => /\ calibration_data'.measured_y = flocal.curve
              /\ \E v \in FitValues(flocal.curve) :
                    /\ flocal'.minimum = FitMinimum(v)
                    /\ flocal'.maximum = FitMaximum(v)
                    /\ calibration_data'.measured_x = MeasuredX(flocal.voltage, v)
    /\ (fpc = "validate" /\ fpc' = "set_min")
           => /\ AllClose(SeqMin(flocal.curve), flocal.minimum, Atol)
              /\ AllClose(SeqMax(flocal.curve), flocal.maximum, Atol)
    /\ fpc = "set_mean" => calibration_data'.mean = Mean(flocal.curve)
    /\ fpc = "set_rms" => calibration_data'.rms = Std(flocal.curve)
    /\ (fpc = "save" /\ flocal.autosave)
           => /\ calibration_data'.curve # None
              /\ calibration_data'.curve[1].x = flocal.voltage
              /\ calibration_data'.curve[1].y = flocal.curve

\* C23: FitInput.calibrate uses only the first floor(n/2) samples of an
\* n-sample sweep: the fit, the observed minimum and maximum used for the
\* validation, the committed mean and rms and the persisted curve are all
\* derived from that first half, which is what calibrate keeps of the sweep.
C23_OnlyFirstHalfUsed == [][C23_Step]_vars

\* C23 witness: a calibrate has committed and persisted the statistics of
\* the first two samples of a sweep of four or more.
C23_Witness ==
    /\ FitCallEnded
    /\ fresult.kind = "return"
    /\ flocal.autosave
    /\ Len(flocal.curve) = 2
    /\ flocal.curve[1] # flocal.curve[2]
    /\ calibration_data.mean = Mean(flocal.curve)
    /\ calibration_data.rms = Std(flocal.curve)
    /\ calibration_data.curve # None
    /\ calibration_data.curve[1].y = flocal.curve

----------------------------------------------------------------------------
(* The scope settings of the zoomed acquisition *)

\* the scope has been set up for the zoomed acquisition
ZoomSetUp == hpc \in {"arm", "sweep", "await"}

\* C24: in sweep_acquire_zoom the scope duration is divided by finesse/20
\* and the trigger set to the negative edge of channel 1 if and only if the
\* scope has no saved 'sweep_zoom' state; when that state exists it is
\* loaded instead and the duration is not rescaled; in both cases the
\* threshold the caller passed is the one of the armed acquisition.
C24_ZoomSettings ==
    ZoomSetUp
        => /\ scope_cfg.threshold = hlocal.threshold
           /\ hpc \in {"sweep", "await"} => scope_cfg.armed
           /\ has_sweep_zoom
                 => /\ scope_cfg.duration = SweepZoomState.duration
                    /\ scope_cfg.trigger_source = SweepZoomState.trigger_source
                    /\ scope_cfg.hysteresis = SweepZoomState.hysteresis
                    /\ scope_cfg.trigger_delay = SweepZoomState.trigger_delay
           /\ ~has_sweep_zoom
                 => /\ scope_cfg.duration = (AutosweepState.duration * 20) \div Finesse
                    /\ scope_cfg.trigger_source = "ch1_negative_edge"
                    /\ scope_cfg.hysteresis = 2000
                    /\ scope_cfg.trigger_delay = 0

\* C24 witness: with a saved 'sweep_zoom' state the acquisition is armed
\* with the saved duration and with the caller's threshold, not the saved
\* one.
C24_Witness ==
    /\ hpc = "await"
    /\ has_sweep_zoom
    /\ scope_cfg.armed
    /\ scope_cfg.duration = SweepZoomState.duration
    /\ scope_cfg.threshold = hlocal.threshold
    /\ scope_cfg.threshold # SweepZoomState.threshold

----------------------------------------------------------------------------
(* The threshold computation and the calibration data *)

\* get_threshold has returned, or has been left by an exception
ThresholdEnded == hpc = "pop" \/ (HFCallEnded /\ hlocal.threshold_raised)

\* C25: computing a trigger threshold does not change calibration data:
\* after get_threshold_empirical has returned every calibration data field
\* equals its value before the call, although the call overwrites min, max,
\* mean and rms with the statistics of the coarse curve while it runs; the
\* same holds when expected_signal raises during the call.
C25_ThresholdKeepsCalibration ==
    /\ ThresholdEnded => hcal = hpre
    /\ hpc = "expected"
           => Stats(hcal[Trigger]) = Stats(StatsFromCurve(hcal[Trigger], hlocal.curve0))

----------------------------------------------------------------------------
(* A denied lease *)

\* what sweep_acquire_zoom shares with the rest of the system
ZoomFrame == <<leased, scope_cfg, has_sweep_zoom, sweep_running, hcal>>

C26_Step ==
    /\ (hpc = "pop" /\ ~PoolCanGrant)
           => /\ ZoomFrame' = ZoomFrame
              /\ hevents' = Append(hevents, "warning")
              /\ IsEmptyTriple(hlocal')
              /\ hpc' = "after_zoom"
    /\ (hlocal.zcause = "denied" /\ hpc = "after_zoom")
           => /\ ZoomFrame' = ZoomFrame
              /\ hevents' = hevents
              /\ hpc' = "idle"

\* C26: when the scope pool denies the lease, sweep_acquire_zoom does not
\* disturb the running system: lockbox.unlock is not called, the sweep is
\* not restarted, no scope state is loaded or saved, the trigger phase is not
\* updated, and the lease is not tried again.
C26_DeniedLeaseDisturbsNothing == [][C26_Step]_vars

\* C26 witness: the lease was denied while the coarse sweep was running;
\* the sweep still runs and nothing of the zoom protocol has happened.
C26_Witness ==
    /\ hlocal.zcause = "denied"
    /\ hpc = "idle"
    /\ sweep_running
    /\ hevents = <<"warning">>
    /\ leased[Trigger] = 0
    /\ hcal = hpre

----------------------------------------------------------------------------
(* No coarse curve *)

\* C27: when the coarse first-stage scan returns no curve,
\* HighFinesseInput.calibrate and HighFinesseAnalogPdh.calibrate return None
\* at once: the zoomed stage is not started, no scope is asked for it, the
\* zoom protocol does not unlock, the calibration data is unchanged and no
\* notification is emitted.
C27_NoCoarseCurveReturnsAtOnce ==
    (hcalls > 0 /\ hlocal.curve0 = None)
        => /\ hpc \in {"coarse", "idle"}
           /\ hcal = hpre
           /\ hlocal.notified = None
           /\ hlocal.zcause = ""
           /\ hpc = "idle"
                 => /\ hresult = Returned(None)
                    /\ hevents = <<"warning">>

\* C27 witness: the pdh signal was calibrated once; a second calibrate found
\* no scope for the coarse sweep and returned None, leaving the data of the
\* first.
C27_Witness ==
    /\ HFCallEnded
    /\ hcalls = 2
    /\ hlocal.variant = "HighFinesseAnalogPdh"
    /\ hlocal.curve0 = None
    /\ hresult = Returned(None)
    /\ hcal = hpre
    /\ hcal["pdh"].max # 0

----------------------------------------------------------------------------
(* The pdh signal calibrated beside its trigger signal *)

\* HighFinesseAnalogPdh.calibrate has taken the statistics, or has returned
PdhCalibrated ==
    /\ hlocal.variant = "HighFinesseAnalogPdh"
    /\ \/ hpc \in {"emit", "save"}
       \/ HFCallEnded /\ hresult.kind = "return" /\ hlocal.curve0 # None

----------------------------------------------------------------------------
\* C29: for every dock widget, once the slots have run the check state of
\* its menu action equals the visibility of the dock widget, after any
\* sequence of menu toggles, dock show/hide events, tab changes and window
\* show/hide events; and the two slots come to rest: one event never makes
\* more than two slot calls for one dock widget.
C29_MenuAndDockAgree ==
    /\ dock_stack = <<>> =>
         \A d \in Docks : docks[d].checked = docks[d].visible
    /\ \A d \in Docks : docks[d].runs <= 2

\* the user has closed one dock widget and then switched another one on
\* again through the menu: both slots have run for it and have come to rest
C29_Witness ==
    /\ dock_stack = <<>>
    /\ window_visible
    /\ \E d, e \in Docks :
         /\ docks[d].checked /\ docks[d].visible /\ docks[d].runs = 2
         /\ docks[e].hidden /\ ~docks[e].checked /\ docks[e].runs = 0

====
